---- MODULE Spec2Model ----
(***************************************************************************)
(* A model of the DiscordDB document store (src/src/discord-db.ts) over    *)
(* its message transport (src/src/client/discord-client.ts), with the      *)
(* filter evaluator (src/src/utils/filters.ts) and the update interpreter  *)
(* (src/src/utils/updates.ts) as operators.                                *)
(*                                                                         *)
(* JSON values are tagged records: [num |-> n], [str |-> s], [pad |-> n]   *)
(* (the string of n letters x, 'x'.repeat(n)), [obj |-> f] (f a function   *)
(* from keys to values) and Undef for JavaScript's undefined.  A document  *)
(* is the function f of an object.                                         *)
(***************************************************************************)
EXTENDS Integers, Sequences, FiniteSets, TLC

VARIABLES
  log,              \* the channel's messages as getAllMessages lists them: newest first
  nextMsg,          \* number of the next message the transport creates
  cache,            \* DiscordDB.cache: a Map, kept as its entries in insertion order
  lastCacheUpdate,  \* DiscordDB.lastCacheUpdate
  cacheTimeout,     \* DiscordDB.cacheTimeout
  now,              \* Date.now()
  acked,            \* history: the documents insertOne acknowledged and no later write selected
  updated,          \* history: what the last updateOne left of its document
  deleted,          \* history: the documents deleteOne acknowledged, their identifier unique
  encryptionKey,    \* the store's encryption passphrase, Undef when none is configured
  inflight,         \* the calls that were started and not awaited, each at its await
  op                \* history: the last operation, its inputs, transport calls and outcome

vars ==
  <<log, nextMsg, cache, lastCacheUpdate, cacheTimeout, now, acked, updated, deleted,
    encryptionKey, inflight, op>>

----------------------------------------------------------------------------
(* Values *)

Undef == [undef |-> TRUE]
Null == [null |-> TRUE]
Num(n) == [num |-> n]
Str(s) == [str |-> s]
Pad(n) == [pad |-> n]
Bool(b) == [bool |-> b]
Obj(f) == [obj |-> f]
Arr(s) == [arr |-> s]

IsNum(v) == "num" \in DOMAIN v
IsStr(v) == "str" \in DOMAIN v \/ "pad" \in DOMAIN v
IsObj(v) == "obj" \in DOMAIN v
IsArr(v) == "arr" \in DOMAIN v

EmptyObj == [k \in {} |-> Undef]

\* obj[key] = v
Put(f, k, v) == [x \in (DOMAIN f) \cup {k} |-> IF x = k THEN v ELSE f[x]]

\* delete obj[key]
Del(f, k) == [x \in (DOMAIN f) \ {k} |-> f[x]]

\* The value of a condition such as `if (doc._id)`.
Truthy(v) ==
  IF v = Undef \/ v = Null THEN FALSE
  ELSE IF IsNum(v) THEN v.num # 0
  ELSE IF "str" \in DOMAIN v THEN v.str # ""
  ELSE IF "pad" \in DOMAIN v THEN v.pad # 0
  ELSE IF "bool" \in DOMAIN v THEN v.bool
  ELSE TRUE

\* The element of a one-element set: { e : x \in {v} } is e with x bound to
\* the value v, computed once.
Only(S) == CHOOSE x \in S : TRUE

----------------------------------------------------------------------------
(* JSON.stringify(doc).length *)

\* A cipher block and an initialization vector: 16 bytes, 32 hex digits.
BlockBytes == 16
BlockHex == 2 * BlockBytes

Digits(n) == IF n < 10 THEN 1 ELSE IF n < 100 THEN 2 ELSE IF n < 1000 THEN 3 ELSE 4

RECURSIVE JsonLen(_)
RECURSIVE MembersLen(_, _)

\* The members "key":value of an object, without the commas between them.
MembersLen(f, keys) ==
  IF keys = {} THEN 0
  ELSE LET k == CHOOSE x \in keys : TRUE
       IN  Len(k) + 3 + JsonLen(f[k]) + MembersLen(f, keys \ {k})

JsonLen(v) ==
  IF IsNum(v) THEN Digits(v.num)
  ELSE IF "str" \in DOMAIN v THEN Len(v.str) + 2
  ELSE IF "pad" \in DOMAIN v THEN v.pad + 2
  ELSE IF "bool" \in DOMAIN v THEN (IF v.bool THEN 4 ELSE 5)
  ELSE IF "iv" \in DOMAIN v THEN BlockHex + 2
  ELSE IF "cipher" \in DOMAIN v
  THEN BlockHex * ((IF "json" \in DOMAIN v.cipher.plain
                    THEN JsonLen(Obj(v.cipher.plain.json))
                    ELSE Len(v.cipher.plain.raw)) \div BlockBytes + 1) + 2
  ELSE LET n == Cardinality(DOMAIN v.obj)
       IN  2 + MembersLen(v.obj, DOMAIN v.obj) + (IF n > 0 THEN n - 1 ELSE 0)

\* A message's content: the JSON text of a document, kept as the document it
\* parses to, or a text that is no JSON document.
Stringify(doc) == [json |-> doc]
ContentLength(c) == IF "json" \in DOMAIN c THEN JsonLen(Obj(c.json)) ELSE Len(c.raw)

----------------------------------------------------------------------------
(* Field paths: path.split('.') is kept as the sequence of its segments *)

RECURSIVE GetPath(_, _)
GetPath(v, path) ==
  IF path = <<>> THEN v
  ELSE IF IsObj(v) /\ Head(path) \in DOMAIN v.obj
       THEN GetPath(v.obj[Head(path)], Tail(path))
       ELSE Undef

GetNestedValue(doc, path) == GetPath(Obj(doc), path)

RECURSIVE SetNestedValue(_, _, _)
SetNestedValue(f, path, v) ==
  IF Len(path) = 1 THEN Put(f, path[1], v)
  ELSE LET k == Head(path)
           child == IF k \in DOMAIN f /\ IsObj(f[k]) THEN f[k].obj ELSE EmptyObj
       IN  Put(f, k, Obj(SetNestedValue(child, Tail(path), v)))

RECURSIVE UnsetNestedValue(_, _)
UnsetNestedValue(f, path) ==
  IF Len(path) = 1 THEN Del(f, path[1])
  ELSE LET k == Head(path)
       IN  IF k \in DOMAIN f /\ IsObj(f[k])
           THEN Put(f, k, Obj(UnsetNestedValue(f[k].obj, Tail(path))))
           ELSE f

----------------------------------------------------------------------------
(* The filter evaluator.  A filter is the sequence of its entries, in key  *)
(* order: [path, lit] compares a field with a literal, [path, ops] applies *)
(* an operator object, itself the sequence of its [op, arg] entries, and   *)
(* [and |-> fs], [or |-> fs], [not |-> f] are the keys $and, $or (over an  *)
(* array of filters) and $not.  A literal that is a mapping is an object   *)
(* too, and is evaluated as an operator object.  The argument of the       *)
(* operator $not is [ops |-> s], the object it is given.  An evaluation    *)
(* yields "true", "false" or "throw" (new RegExp of a pattern that does    *)
(* not compile).  Ordering operators are modelled on numbers.              *)

CompareValues(a, b) == a = b

BadPattern == [pattern |-> "("]

Tri(b) == IF b THEN "true" ELSE "false"

\* !r, of an evaluation that may have thrown.
Negate(r) == IF r = "true" THEN "false" ELSE IF r = "false" THEN "true" ELSE r

\* Object.entries of a mapping; the order matters only when an entry throws.
RECURSIVE Entries(_)
Entries(f) ==
  IF DOMAIN f = {} THEN <<>>
  ELSE LET k == CHOOSE x \in DOMAIN f : TRUE
       IN  <<[op |-> k, arg |-> f[k]]>> \o Entries(Del(f, k))

\* An operator object read as a filter: each key is a field name, $not apart.
RECURSIVE AsFilter(_)
AsFilter(ops) ==
  IF ops = <<>> THEN <<>>
  ELSE LET o == Head(ops)
           e == IF o.op = "$not" THEN [not |-> AsFilter(o.arg.ops)]
                ELSE IF "ops" \in DOMAIN o.arg THEN [path |-> <<o.op>>, ops |-> o.arg.ops]
                ELSE [path |-> <<o.op>>, lit |-> o.arg]
       IN  <<e>> \o AsFilter(Tail(ops))

RECURSIVE EvaluateFilter(_, _)
RECURSIVE EvaluateOperators(_, _)
RECURSIVE EvaluateEvery(_, _)
RECURSIVE EvaluateSome(_, _)

\* array.some(val => compareValues(docValue, val))
InArray(docValue, arr) == \E i \in 1..Len(arr) : CompareValues(docValue, arr[i])

EvaluateOperator(docValue, o) ==
  CASE o.op = "$eq"     -> Tri(CompareValues(docValue, o.arg))
    [] o.op = "$ne"     -> Tri(~CompareValues(docValue, o.arg))
    [] o.op = "$gt"     -> Tri(IsNum(docValue) /\ IsNum(o.arg) /\ docValue.num > o.arg.num)
    [] o.op = "$gte"    -> Tri(IsNum(docValue) /\ IsNum(o.arg) /\ docValue.num >= o.arg.num)
    [] o.op = "$lt"     -> Tri(IsNum(docValue) /\ IsNum(o.arg) /\ docValue.num < o.arg.num)
    [] o.op = "$lte"    -> Tri(IsNum(docValue) /\ IsNum(o.arg) /\ docValue.num <= o.arg.num)
    [] o.op = "$in"     -> Tri(IsArr(o.arg) /\ InArray(docValue, o.arg.arr))
    [] o.op = "$nin"    -> Tri(IsArr(o.arg) /\ ~InArray(docValue, o.arg.arr))
    [] o.op = "$exists" -> Tri(IF Truthy(o.arg) THEN docValue # Undef ELSE docValue = Undef)
    [] o.op = "$regex" /\ o.arg = BadPattern -> "throw"
    [] o.op = "$not"    -> Negate(EvaluateFilter([k \in {"docValue"} |-> docValue],
                                                 AsFilter(o.arg.ops)))
    [] OTHER            -> "true"

EvaluateOperators(docValue, ops) ==
  IF ops = <<>> THEN "true"
  ELSE LET r == EvaluateOperator(docValue, Head(ops))
       IN  IF r = "true" THEN EvaluateOperators(docValue, Tail(ops)) ELSE r

EvaluateFieldFilter(doc, e) ==
  LET docValue == GetNestedValue(doc, e.path)
  IN  IF "ops" \in DOMAIN e
      THEN EvaluateOperators(docValue, e.ops)
      ELSE IF IsObj(e.lit)
      THEN EvaluateOperators(docValue, Entries(e.lit.obj))
      ELSE Tri(CompareValues(docValue, e.lit))

\* value.every(subFilter => matchesFilter(document, subFilter))
EvaluateEvery(doc, subFilters) ==
  IF subFilters = <<>> THEN "true"
  ELSE LET r == EvaluateFilter(doc, Head(subFilters))
       IN  IF r = "true" THEN EvaluateEvery(doc, Tail(subFilters)) ELSE r

\* $or looking at its first sub-filter only.
EvaluateSomeFirst(doc, subFilters) ==
  IF subFilters = <<>> THEN "false" ELSE EvaluateFilter(doc, Head(subFilters))

\* value.some(subFilter => matchesFilter(document, subFilter))
EvaluateSome(doc, subFilters) ==
  IF subFilters = <<>> THEN "false"
  ELSE LET r == EvaluateFilter(doc, Head(subFilters))
       IN  IF r = "false" THEN EvaluateSome(doc, Tail(subFilters)) ELSE r

\* One key of a filter.
EvaluateEntry(doc, e) ==
  IF "and" \in DOMAIN e THEN EvaluateEvery(doc, e.and)
  ELSE IF "or" \in DOMAIN e THEN EvaluateSome(doc, e.or)
  ELSE IF "not" \in DOMAIN e THEN Negate(EvaluateFilter(doc, e.not))
  ELSE EvaluateFieldFilter(doc, e)

EvaluateFilter(doc, filter) ==
  IF filter = <<>> THEN "true"
  ELSE LET r == EvaluateEntry(doc, Head(filter))
       IN  IF r = "true" THEN EvaluateFilter(doc, Tail(filter)) ELSE r

MatchesFilter(doc, filter) == EvaluateFilter(doc, filter) = "true"

\* documents.filter(doc => matchesFilter(doc, filter)) throws when one evaluation does.
FilterThrows(docs, filter) ==
  \E i \in 1..Len(docs) : EvaluateFilter(docs[i], filter) = "throw"

----------------------------------------------------------------------------
(* Query options.  An option that is absent is Undef; sort is [by |-> s],  *)
(* s the sequence of the sort object's [path, dir] entries; skip and limit *)
(* are numbers; projection is [fields |-> s], s the sequence of its        *)
(* [path, val] entries.                                                    *)

\* The strings the sort compares as strings, in the order localeCompare gives them.
Collation == <<"[object Object]", "1", "2", "3", "a", "b", "c", "false", "true">>

LocaleCompare(s, t) ==
  (CHOOSE i \in 1..Len(Collation) : Collation[i] = s)
    - (CHOOSE i \in 1..Len(Collation) : Collation[i] = t)

\* String(v)
StringOf(v) ==
  IF IsNum(v) THEN ToString(v.num)
  ELSE IF "str" \in DOMAIN v THEN v.str
  ELSE IF "bool" \in DOMAIN v THEN (IF v.bool THEN "true" ELSE "false")
  ELSE "[object Object]"

CompareForSort(a, b) ==
  IF a = b THEN 0
  ELSE IF a = Undef \/ a = Null THEN -1
  ELSE IF b = Undef \/ b = Null THEN 1
  ELSE IF "str" \in DOMAIN a /\ "str" \in DOMAIN b THEN LocaleCompare(a.str, b.str)
  ELSE IF IsNum(a) /\ IsNum(b) THEN a.num - b.num
  ELSE LocaleCompare(StringOf(a), StringOf(b))

\* Every direction taken as ascending.
NormalizeAscending(direction) == 1

NormalizeSortDirection(direction) ==
  IF direction = Num(1) \/ direction = Str("asc") THEN 1
  ELSE IF direction = Num(-1) \/ direction = Str("desc") THEN -1
  ELSE 1

\* The comparator sortDocuments gives to Array.prototype.sort.
RECURSIVE CompareDocuments(_, _, _)
CompareDocuments(a, b, entries) ==
  IF entries = <<>> THEN 0
  ELSE LET comparison == CompareForSort(GetNestedValue(a, Head(entries).path),
                                        GetNestedValue(b, Head(entries).path))
       IN  IF comparison # 0
           THEN comparison * NormalizeSortDirection(Head(entries).dir)
           ELSE CompareDocuments(a, b, Tail(entries))

\* Array.prototype.sort is stable: a document goes after those not greater than it.
RECURSIVE SortInsert(_, _, _)
SortInsert(sorted, d, entries) ==
  IF sorted = <<>> THEN <<d>>
  ELSE IF CompareDocuments(Head(sorted), d, entries) <= 0
       THEN <<Head(sorted)>> \o SortInsert(Tail(sorted), d, entries)
       ELSE <<d>> \o sorted

RECURSIVE SortStable(_, _, _)
SortStable(sorted, documents, entries) ==
  IF documents = <<>> THEN sorted
  ELSE SortStable(SortInsert(sorted, Head(documents), entries), Tail(documents), entries)

SortDocuments(documents, sortOption) ==
  IF sortOption = Undef \/ sortOption.by = <<>> THEN documents
  ELSE SortStable(<<>>, documents, sortOption.by)

ApplyPagination(documents, skip, limit) ==
  LET from == IF skip = Undef THEN 0 ELSE skip.num
      result == SubSeq(documents, from + 1, Len(documents))
  IN  IF limit # Undef
      THEN SubSeq(result, 1, IF limit.num < Len(result) THEN limit.num ELSE Len(result))
      ELSE result

\* The property name a projection key is: the path with its dots.
RECURSIVE Dotted(_)
Dotted(path) ==
  IF Len(path) = 1 THEN path[1] ELSE path[1] \o "." \o Dotted(Tail(path))

\* projection[key], Undef when the projection has no such key.
ProjectionValue(fields, key) ==
  IF \E i \in 1..Len(fields) : Dotted(fields[i].path) = key
  THEN Num(fields[CHOOSE i \in 1..Len(fields) : Dotted(fields[i].path) = key].val)
  ELSE Undef

RECURSIVE ProjectInclusive(_, _, _)
ProjectInclusive(doc, fields, projected) ==
  IF fields = <<>> THEN projected
  ELSE ProjectInclusive(doc, Tail(fields),
         IF Head(fields).val = 1
         THEN Put(projected, Dotted(Head(fields).path), GetNestedValue(doc, Head(fields).path))
         ELSE projected)

\* An exclusive projection that deletes nothing.
ProjectKeepingAll(fields, projected) == projected

RECURSIVE ProjectExclusive(_, _)
ProjectExclusive(fields, projected) ==
  IF fields = <<>> THEN projected
  ELSE ProjectExclusive(Tail(fields),
         IF Head(fields).val = 0 THEN Del(projected, Dotted(Head(fields).path))
         ELSE projected)

ApplyProjection(documents, projection) ==
  IF projection = Undef \/ projection.fields = <<>> THEN documents
  ELSE LET isInclusive == \E i \in 1..Len(projection.fields) : projection.fields[i].val = 1
           One(doc) ==
             IF isInclusive
             THEN LET projected == ProjectInclusive(doc, projection.fields, EmptyObj)
                  IN  IF ProjectionValue(projection.fields, "_id") # Num(0)
                      THEN Put(projected, "_id", GetNestedValue(doc, <<"_id">>))
                      ELSE projected
             ELSE ProjectExclusive(projection.fields, doc)
       IN  [i \in 1..Len(documents) |-> One(documents[i])]

----------------------------------------------------------------------------
(* The update interpreter.  An update specification is the sequence of its *)
(* top-level entries [key, val]: for an operator key val is the sequence   *)
(* of the group's [path, arg] entries, for a field key it is the value.    *)
(* applyUpdate copies the document one level deep, so the nested objects   *)
(* of the copy are those of the source until a top-level write replaces    *)
(* them: the interpreter carries the copy (upd), the source document as    *)
(* the writes leave it (src) and the top-level keys still shared.          *)

DollarKeys == {"$set", "$unset", "$inc", "$push", "$pull", "$addToSet"}

\* The groups with $inc ahead of $set.
GroupOrderIncFirst == <<"$inc", "$set", "$unset", "$push", "$pull", "$addToSet">>

\* The order applyUpdate takes the groups in.
GroupOrder == <<"$set", "$unset", "$inc", "$push", "$pull", "$addToSet">>

IsUpdateOperators(update) == \E i \in 1..Len(update) : update[i].key \in DollarKeys

Group(update, g) ==
  IF \E i \in 1..Len(update) : update[i].key = g
  THEN update[CHOOSE i \in 1..Len(update) : update[i].key = g].val
  ELSE <<>>

ValidateUpdate(update) ==
  IsUpdateOperators(update) =>
    /\ \A i \in 1..Len(Group(update, "$inc")) : IsNum(Group(update, "$inc")[i].arg)
    /\ \A i \in 1..Len(Group(update, "$unset")) :
         Group(update, "$unset")[i].arg \in {Num(1), Bool(TRUE)}

\* deepEqual: an array and a mapping have no key in common, and are equal
\* when both are empty.
RECURSIVE DeepEqual(_, _)
DeepEqual(a, b) ==
  IF a = b THEN TRUE
  ELSE IF IsArr(a) /\ IsArr(b)
  THEN Len(a.arr) = Len(b.arr) /\ \A i \in 1..Len(a.arr) : DeepEqual(a.arr[i], b.arr[i])
  ELSE IF IsObj(a) /\ IsObj(b)
  THEN /\ Cardinality(DOMAIN a.obj) = Cardinality(DOMAIN b.obj)
       /\ \A k \in DOMAIN a.obj : k \in DOMAIN b.obj /\ DeepEqual(a.obj[k], b.obj[k])
  ELSE IF IsArr(a) /\ IsObj(b) THEN a.arr = <<>> /\ DOMAIN b.obj = {}
  ELSE IF IsObj(a) /\ IsArr(b) THEN DOMAIN a.obj = {} /\ b.arr = <<>>
  ELSE FALSE

\* A $pull that removes nothing.
WithoutNothing(arr, value) == arr

\* currentValue.filter(item => !deepEqual(item, value))
RECURSIVE Without(_, _)
Without(arr, value) ==
  IF arr = <<>> THEN <<>>
  ELSE IF DeepEqual(Head(arr), value) THEN Without(Tail(arr), value)
  ELSE <<Head(arr)>> \o Without(Tail(arr), value)

\* An $addToSet that never finds the value.
HoldsNever(arr, value) == FALSE

\* currentValue.some(item => deepEqual(item, value))
Holds(arr, value) == \E i \in 1..Len(arr) : DeepEqual(arr[i], value)

\* A write along `path` that leaves the copy as newUpd.
WriteThrough(st, path, newUpd) ==
  LET k == Head(path)
      through == Len(path) > 1 /\ k \in st.shared
  IN  [upd    |-> newUpd,
       src    |-> IF through THEN Put(st.src, k, newUpd[k]) ELSE st.src,
       shared |-> IF through THEN st.shared ELSE st.shared \ {k}]

ApplyEntry(st, g, e) ==
  CASE g = "$set"   -> WriteThrough(st, e.path, SetNestedValue(st.upd, e.path, e.arg))
    [] g = "$unset" -> WriteThrough(st, e.path, UnsetNestedValue(st.upd, e.path))
    [] g = "$inc"   ->
         LET v == GetNestedValue(st.upd, e.path)
             currentValue == IF Truthy(v) THEN v ELSE Num(0)
         IN  IF IsNum(currentValue) /\ IsNum(e.arg)
             THEN WriteThrough(st, e.path,
                    SetNestedValue(st.upd, e.path, Num(currentValue.num + e.arg.num)))
             ELSE st
    [] g = "$push"  ->
         LET currentValue == GetNestedValue(st.upd, e.path)
         IN  WriteThrough(st, e.path,
               SetNestedValue(st.upd, e.path,
                 IF IsArr(currentValue) THEN Arr(Append(currentValue.arr, e.arg))
                 ELSE Arr(<<e.arg>>)))
    [] g = "$pull"  ->
         LET currentValue == GetNestedValue(st.upd, e.path)
         IN  IF IsArr(currentValue)
             THEN WriteThrough(st, e.path,
                    SetNestedValue(st.upd, e.path, Arr(Without(currentValue.arr, e.arg))))
             ELSE st
    [] g = "$addToSet" ->
         LET currentValue == GetNestedValue(st.upd, e.path)
         IN  IF ~IsArr(currentValue)
             THEN WriteThrough(st, e.path, SetNestedValue(st.upd, e.path, Arr(<<e.arg>>)))
             ELSE IF Holds(currentValue.arr, e.arg)
             THEN st
             ELSE WriteThrough(st, e.path,
                    SetNestedValue(st.upd, e.path, Arr(Append(currentValue.arr, e.arg))))

RECURSIVE ApplyEntries(_, _, _)
ApplyEntries(st, g, entries) ==
  IF entries = <<>> THEN st
  ELSE ApplyEntries(ApplyEntry(st, g, Head(entries)), g, Tail(entries))

RECURSIVE ApplyGroups(_, _, _)
ApplyGroups(st, update, groups) ==
  IF groups = <<>> THEN st
  ELSE ApplyGroups(ApplyEntries(st, Head(groups), Group(update, Head(groups))),
                   update, Tail(groups))

RECURSIVE Merge(_, _)
Merge(doc, update) ==
  IF update = <<>> THEN doc
  ELSE Merge(Put(doc, Head(update).key, Head(update).val), Tail(update))

ApplyUpdateHeap(doc, update) ==
  LET st == [upd |-> doc, src |-> doc, shared |-> {k \in DOMAIN doc : IsObj(doc[k])}]
  IN  IF ~IsUpdateOperators(update)
      THEN [st EXCEPT !.upd = Merge(doc, update)]
      ELSE ApplyGroups(st, update, GroupOrder)

\* The document applyUpdate returns.
ApplyUpdate(doc, update) == ApplyUpdateHeap(doc, update).upd

\* The document passed to applyUpdate, as the call leaves it.
SourceAfterUpdate(doc, update) == ApplyUpdateHeap(doc, update).src

----------------------------------------------------------------------------
(* The transport: the channel's messages, newest first *)

SizeLimit == 2000

Msg(n, content) ==
  [id |-> "m" \o ToString(n), content |-> content, timestamp |-> "t" \o ToString(n)]

HasMessage(l, id) == \E i \in 1..Len(l) : Str(l[i].id) = id

\* sendMessage: the new message is the newest.
SendMessage(l, n, content) == <<Msg(n, content)>> \o l

\* editMessage: the content changes, the message keeps its id, place and timestamp.
EditMessage(l, id, content) ==
  [i \in 1..Len(l) |-> IF Str(l[i].id) = id THEN [l[i] EXCEPT !.content = content] ELSE l[i]]

RECURSIVE DeleteMessage(_, _)
DeleteMessage(l, id) ==
  IF l = <<>> THEN <<>>
  ELSE IF Str(Head(l).id) = id THEN Tail(l)
  ELSE <<Head(l)>> \o DeleteMessage(Tail(l), id)

\* What the transport's failures are raised as.
TransportErrors == {"NetworkError"}
Outcomes == {"ok"} \cup TransportErrors

\* Every kind the transport raises: no answer or an HTTP error (NetworkError),
\* a 401 or 403 (AuthenticationError), an answer whose body does not parse (an
\* Error that is no DiscordDBError).
TransportKinds == {"NetworkError", "AuthenticationError", "SyntaxError"}
AnyOutcome == {"ok"} \cup TransportKinds

\* A transport call of an operation that returned, and one that raised.
Call(fn, id, len, ok) == [fn |-> fn, id |-> id, len |-> len, ok |-> ok, err |-> "none"]
Failure(fn, id, len, kind) == [fn |-> fn, id |-> id, len |-> len, ok |-> FALSE, err |-> kind]

StoreErrors == {"DiscordDBError", "ValidationError", "AuthenticationError", "NetworkError"}

HandleError(kind) == IF kind \in StoreErrors THEN kind ELSE "DiscordDBError"

----------------------------------------------------------------------------
(* The cache: a Map from _id to document *)

CacheKeys(c) == {c[i].key : i \in 1..Len(c)}

CacheGet(c, k) == c[CHOOSE i \in 1..Len(c) : c[i].key = k].doc

CacheSetPlain(c, k, d) ==
  IF k \in CacheKeys(c)
  THEN [i \in 1..Len(c) |-> IF c[i].key = k THEN [key |-> k, doc |-> d] ELSE c[i]]
  ELSE Append(c, [key |-> k, doc |-> d])

CacheSet(c, k, d) == CacheSetPlain(c, k, d)

RECURSIVE CacheDelete(_, _)
CacheDelete(c, k) ==
  IF c = <<>> THEN <<>>
  ELSE IF Head(c).key = k THEN Tail(c)
  ELSE <<Head(c)>> \o CacheDelete(Tail(c), k)

Id(doc) == GetNestedValue(doc, <<"_id">>)
MessageId(doc) == GetNestedValue(doc, <<"_messageId">>)

\* doc._messageId = message.id; doc._timestamp = message.timestamp
Stamp(doc, id, timestamp) == Put(Put(doc, "_messageId", Str(id)), "_timestamp", Str(timestamp))

\* The loop body of getAllDocuments keeps a message: its content is not
\* blank, parses, and the parsed document has a truthy _id.
Keeps(m) == "json" \in DOMAIN m.content /\ Truthy(Id(m.content.json))

RECURSIVE ParsedDocuments(_)
ParsedDocuments(messages) ==
  IF messages = <<>> THEN <<>>
  ELSE IF Keeps(Head(messages))
       THEN <<Stamp(Head(messages).content.json, Head(messages).id, Head(messages).timestamp)>>
              \o ParsedDocuments(Tail(messages))
       ELSE ParsedDocuments(Tail(messages))

RECURSIVE FillCache(_, _)
FillCache(c, documents) ==
  IF documents = <<>> THEN c
  ELSE FillCache(CacheSet(c, Id(Head(documents)), Head(documents)), Tail(documents))

\* A cache whose age has just reached the threshold is still taken as fresh.
IsFreshAtThreshold(c, last, timeout, t) == t - last <= timeout /\ Len(c) > 0

IsFresh(c, last, timeout, t) == t - last < timeout /\ Len(c) > 0

\* getAllDocuments clearing the cache before the list call is answered.
GetAllDocumentsClearingFirst(l, c, last, timeout, t, listOutcome) ==
  IF IsFresh(c, last, timeout, t)
  THEN [raised |-> "none", calls |-> <<>>, cache |-> c, last |-> last,
        refs |-> [i \in 1..Len(c) |-> [doc |-> c[i].doc, key |-> c[i].key, live |-> TRUE]]]
  ELSE IF listOutcome # "ok"
  THEN [raised |-> HandleError(listOutcome), calls |-> <<Failure("list", Undef, 0, listOutcome)>>,
        cache |-> <<>>, last |-> last, refs |-> <<>>]
  ELSE LET documents == ParsedDocuments(l)
       IN  [raised |-> "none", calls |-> <<Call("list", Undef, 0, TRUE)>>,
            cache |-> FillCache(<<>>, documents), last |-> t,
            refs |-> [i \in 1..Len(documents) |->
                       [doc |-> documents[i], key |-> Id(documents[i]),
                        live |-> \A j \in (i+1)..Len(documents) :
                                    Id(documents[j]) # Id(documents[i])]]]

\* getAllDocuments.  Each document comes with the cache key it is stored under
\* and whether the object returned is the one the cache holds (of two messages
\* with one _id the cache holds the later in list order).
GetAllDocuments(l, c, last, timeout, t, listOutcome) ==
  IF IsFresh(c, last, timeout, t)
  THEN [raised |-> "none", calls |-> <<>>, cache |-> c, last |-> last,
        refs |-> [i \in 1..Len(c) |-> [doc |-> c[i].doc, key |-> c[i].key, live |-> TRUE]]]
  ELSE IF listOutcome # "ok"
  THEN [raised |-> HandleError(listOutcome), calls |-> <<Failure("list", Undef, 0, listOutcome)>>,
        cache |-> c, last |-> last, refs |-> <<>>]
  ELSE LET documents == ParsedDocuments(l)
       IN  [raised |-> "none", calls |-> <<Call("list", Undef, 0, TRUE)>>,
            cache |-> FillCache(<<>>, documents), last |-> t,
            refs |-> [i \in 1..Len(documents) |->
                       [doc |-> documents[i], key |-> Id(documents[i]),
                        live |-> \A j \in (i+1)..Len(documents) :
                                    Id(documents[j]) # Id(documents[i])]]]

\* The positions of the documents matching the filter, in order.
RECURSIVE Matching(_, _, _)
Matching(refs, filter, i) ==
  IF i > Len(refs) THEN <<>>
  ELSE IF MatchesFilter(refs[i].doc, filter)
       THEN <<i>> \o Matching(refs, filter, i + 1)
       ELSE Matching(refs, filter, i + 1)

RefDocs(refs) == [i \in 1..Len(refs) |-> refs[i].doc]

\* prepareDocumentForInsert: a document without a truthy _id gets a generated one.
PrepareDocumentForInsert(document, n) ==
  IF Truthy(Id(document)) THEN document ELSE Put(document, "_id", Str("g" \o ToString(n)))

----------------------------------------------------------------------------
(* The encryption layer.  A ciphertext is [cipher |-> [key, iv, plain]]: the *)
(* hex string that decrypts to the content plain under key; an              *)
(* initialization vector is [iv |-> n].                                     *)

Cipher(key, iv, plain) == [cipher |-> [key |-> key, iv |-> iv, plain |-> plain]]
Iv(n) == [iv |-> n]

\* typeof v === 'string'
IsString(v) == IsStr(v) \/ "cipher" \in DOMAIN v \/ "iv" \in DOMAIN v

\* EncryptionService.encrypt: the envelope of data under key with a fresh iv.
Encrypt(data, key, iv) ==
  ("data" :> Cipher(key, iv, data)) @@ ("iv" :> Iv(iv)) @@ ("encrypted" :> Bool(TRUE))

\* EncryptionService.decrypt: the plaintext, or a throw ("Decryption failed").
Decrypt(encryptedData, key) ==
  IF /\ "cipher" \in DOMAIN encryptedData["data"]
     /\ encryptedData["data"].cipher.key = key
     /\ encryptedData["iv"] = Iv(encryptedData["data"].cipher.iv)
  THEN [ok |-> TRUE, plain |-> encryptedData["data"].cipher.plain]
  ELSE [ok |-> FALSE, plain |-> Undef]

\* EncryptionService.isEncrypted
IsEncrypted(data) ==
  /\ "encrypted" \in DOMAIN data /\ data["encrypted"] = Bool(TRUE)
  /\ "data" \in DOMAIN data /\ IsString(data["data"])
  /\ "iv" \in DOMAIN data /\ IsString(data["iv"])

\* The store serializing without regard to its key.
SerializeDocumentPlain(doc, key, iv) == Stringify(doc)

\* The store serializes a document, encrypting it when a key is configured.
SerializeDocument(doc, key, iv) ==
  IF key = Undef THEN Stringify(doc) ELSE Stringify(Encrypt(Stringify(doc), key, iv))

\* The store deserializing a message that takes an envelope for a document.
DeserializeIgnoringEnvelope(content, key) ==
  IF "json" \notin DOMAIN content THEN [raised |-> "SyntaxError", doc |-> <<>>]
  ELSE [raised |-> "none", doc |-> <<content.json>>]

\* The store deserializes a message's content: an Encrypted Payload is
\* decrypted, and is an error of its own when no key is configured; anything
\* else that parses is the document.
DeserializeDocument(content, key) ==
  IF "json" \notin DOMAIN content THEN [raised |-> "SyntaxError", doc |-> <<>>]
  ELSE IF IsEncrypted(content.json)
  THEN IF key = Undef THEN [raised |-> "NoKeyProvided", doc |-> <<>>]
       ELSE LET d == Decrypt(content.json, key)
            IN  IF ~d.ok THEN [raised |-> "DecryptionFailed", doc |-> <<>>]
                ELSE IF "json" \notin DOMAIN d.plain
                THEN [raised |-> "SyntaxError", doc |-> <<>>]
                ELSE [raised |-> "none", doc |-> <<d.plain.json>>]
  ELSE [raised |-> "none", doc |-> <<content.json>>]

\* What the deserialization raises out of a reload; entries that do not parse
\* are skipped.
Fatal == {"NoKeyProvided", "DecryptionFailed"}

RECURSIVE DeserializedDocuments(_, _)
DeserializedDocuments(messages, key) ==
  IF messages = <<>> THEN <<>>
  ELSE LET m == Head(messages)
           d == DeserializeDocument(m.content, key)
       IN  IF d.raised = "none" /\ Truthy(Id(d.doc[1]))
           THEN <<Stamp(d.doc[1], m.id, m.timestamp)>> \o DeserializedDocuments(Tail(messages), key)
           ELSE DeserializedDocuments(Tail(messages), key)

\* The reload of a store with the encryption layer.
GetAllDocumentsWithKey(l, c, last, timeout, t, key, listOutcome) ==
  IF IsFresh(c, last, timeout, t) \/ listOutcome # "ok"
  THEN GetAllDocuments(l, c, last, timeout, t, listOutcome)
  ELSE IF \E i \in 1..Len(l) : DeserializeDocument(l[i].content, key).raised \in Fatal
  THEN [raised |-> DeserializeDocument(
                     l[CHOOSE i \in 1..Len(l) :
                         /\ DeserializeDocument(l[i].content, key).raised \in Fatal
                         /\ \A j \in 1..(i-1) :
                              DeserializeDocument(l[j].content, key).raised \notin Fatal].content,
                     key).raised,
        calls |-> <<Call("list", Undef, 0, TRUE)>>, cache |-> c, last |-> last,
        refs |-> <<>>]
  ELSE LET documents == DeserializedDocuments(l, key)
       IN  [raised |-> "none", calls |-> <<Call("list", Undef, 0, TRUE)>>,
            cache |-> FillCache(<<>>, documents), last |-> t,
            refs |-> [i \in 1..Len(documents) |->
                       [doc |-> documents[i], key |-> Id(documents[i]), live |-> FALSE]]]

----------------------------------------------------------------------------
(* Bounds and inputs *)

MaxMsg == 3          \* messages the channel ever holds are numbered 1..MaxMsg
MaxTicks == 1        \* the clock advances at most this many times
MaxAge == 3          \* $inc is not applied beyond this value

DefaultTimeout == 30000
StartTime == 4 * DefaultTimeout  \* Date.now() when the store is constructed: long past 0
TickStep == DefaultTimeout       \* one advance of the clock

Timeouts == {0, DefaultTimeout}

DocA == ("_id" :> Str("a")) @@ ("age" :> Num(1))
DocB == ("_id" :> Str("b")) @@ ("p" :> Obj("n" :> Num(1)))

\* The longest document the transport takes, and the shortest it does not.
PadFit == SizeLimit - JsonLen(Obj(("_id" :> Str("a")) @@ ("data" :> Pad(0))))
DocFit == ("_id" :> Str("a")) @@ ("data" :> Pad(PadFit))
DocBig == ("_id" :> Str("b")) @@ ("data" :> Pad(PadFit + 1))
DocNoId == ("age" :> Num(2))

InsertDocs == {DocA, DocB, DocFit, DocBig}

FilterAll == <<>>
FilterId(id) == <<[path |-> <<"_id">>, lit |-> Str(id)]>>
FilterAge == <<[path |-> <<"age">>, ops |-> <<[op |-> "$gt", arg |-> Num(1)]>>]>>
FilterBad == <<[path |-> <<"age">>, ops |-> <<[op |-> "$regex", arg |-> BadPattern]>>]>>

Filters == {FilterAll, FilterId("a"), FilterAge, FilterBad}

\* DocB as the cache holds it once updated: the pad that brings it to the limit.
PadUpd ==
  SizeLimit - JsonLen(Obj(Stamp(Put(DocB, "p", Obj("n" :> Pad(0))), "m1", "t1")))

UpdInc == <<[key |-> "$inc", val |-> <<[path |-> <<"age">>, arg |-> Num(1)]>>]>>
UpdNested == <<[key |-> "$set", val |-> <<[path |-> <<"p", "n">>, arg |-> Num(2)]>>]>>
UpdFit == <<[key |-> "$set", val |-> <<[path |-> <<"p", "n">>, arg |-> Pad(PadUpd)]>>]>>
UpdBig == <<[key |-> "$set", val |-> <<[path |-> <<"p", "n">>, arg |-> Pad(PadUpd + 1)]>>]>>
UpdId == <<[key |-> "$set", val |-> <<[path |-> <<"_id">>, arg |-> Str("b")]>>]>>
UpdBad == <<[key |-> "$inc", val |-> <<[path |-> <<"age">>, arg |-> Str("x")]>>]>>
UpdMsgId == <<[key |-> "$set", val |-> <<[path |-> <<"_messageId">>, arg |-> Str("zz")]>>]>>
UpdMixed ==
  <<[key |-> "$set", val |-> <<[path |-> <<"age">>, arg |-> Num(2)]>>],
    [key |-> "name", val |-> Str("b")]>>

DocC == ("_id" :> Str("c")) @@ ("age" :> Num(2))

\* The documents the queries run over.
QueryDocs == {DocB, DocC}

NoOptions == [sort |-> Undef, skip |-> Undef, limit |-> Undef, projection |-> Undef]

MaxSkip == 1         \* skip is 0..MaxSkip or absent
MaxLimit == 1        \* limit is 0..MaxLimit or absent

\* No sort and no projection, a descending sort with an inclusive projection,
\* an ascending sort with an exclusive one.
Shapes ==
  { [sort |-> Undef, projection |-> Undef],
    [sort |-> [by |-> <<[path |-> <<"age">>, dir |-> Str("desc")]>>],
     projection |-> [fields |-> <<[path |-> <<"age">>, val |-> 1]>>]],
    [sort |-> [by |-> <<[path |-> <<"age">>, dir |-> Num(1)]>>],
     projection |-> [fields |-> <<[path |-> <<"age">>, val |-> 0]>>]] }

\* The options given to find: each shape with every window.
QueryOptions ==
  { [sort |-> s.sort, skip |-> skip, limit |-> limit, projection |-> s.projection] :
      s \in Shapes, skip \in {Undef} \cup {Num(n) : n \in 0..MaxSkip},
      limit \in {Undef} \cup {Num(n) : n \in 0..MaxLimit} }

UpdAge == <<[key |-> "$set", val |-> <<[path |-> <<"age">>, arg |-> Num(2)]>>]>>

\* The store's passphrase and another one; the initialization vectors drawn.
Passphrase == Str("k1")
OtherPassphrase == Str("k2")
IVs == {1, 2}

\* The <<filter, update>> pairs given to updateOne and updateMany.
UpdateInputs ==
  { <<FilterId("a"), UpdInc>>, <<FilterAll, UpdNested>>, <<FilterAll, UpdFit>>,
    <<FilterAll, UpdBig>>, <<FilterId("a"), UpdId>>, <<FilterAll, UpdBad>>,
    <<FilterBad, UpdInc>> }

Batches == { <<DocA, DocB>>, <<DocBig, DocB>> }

\* The transport's answer to each call of a batch.
BatchOutcomes == [1..MaxMsg -> Outcomes]

\* The channel before the store is constructed: empty, holding a document of
\* an earlier session, or holding messages that are no documents.
InitLogs ==
  { <<>>,
    <<Msg(1, Stringify(DocA))>>,
    <<Msg(2, Stringify(DocNoId)), Msg(1, [raw |-> "invalid json"])>> }

\* The channel before a store with the encryption layer is constructed:
\* empty, plaintext of an earlier store, plaintext and an Encrypted Payload of
\* this passphrase, or an Encrypted Payload of another passphrase.
InitLogsWithKey ==
  { <<>>,
    <<Msg(1, Stringify(DocA))>>,
    <<Msg(2, Stringify(Encrypt(Stringify(DocB), Passphrase, 1))), Msg(1, Stringify(DocA))>>,
    <<Msg(1, Stringify(Encrypt(Stringify(DocB), OtherPassphrase, 1)))>> }

----------------------------------------------------------------------------
(* The store's operations.  S = [log, nextMsg, cache] is what an operation *)
(* reads and writes of the transport and the cache.                        *)

NoResult ==
  [acknowledged |-> FALSE, matchedCount |-> 0, modifiedCount |-> 0, deletedCount |-> 0,
   count |-> 0]

\* The result of a write that returned: acknowledged is always true.
Acknowledged == [NoResult EXCEPT !.acknowledged = TRUE]

NoOp ==
  [name |-> "new", filter |-> <<>>, update |-> <<>>, documents |-> <<>>, timeout |-> 0,
   raised |-> "none", calls |-> <<>>, age |-> 0, before |-> <<>>, base |-> <<>>,
   found |-> <<>>, selected |-> <<>>, statuses |-> <<>>, inserted |-> <<>>,
   stamped |-> <<>>, expect |-> <<>>, result |-> NoResult,
   options |-> NoOptions, all |-> <<>>, total |-> 0, hasMore |-> FALSE, sent |-> <<>>,
   value |-> Undef, steps |-> <<>>, maxMessages |-> 0, allMessages |-> <<>>,
   pc |-> "done"]

\* insertOne.
InsertOneCore(S, document, outcome) ==
  LET docToInsert == PrepareDocumentForInsert(document, S.nextMsg)
      content == Stringify(docToInsert)
      message == Msg(S.nextMsg, content)
      insertedDoc == Stamp(docToInsert, message.id, message.timestamp)
  IN  IF ContentLength(content) > SizeLimit
      THEN [S |-> S, raised |-> "ValidationError", calls |-> <<>>, status |-> "oversize",
            inserted |-> <<>>, doc |-> <<>>]
      ELSE IF outcome # "ok"
      THEN [S |-> S, raised |-> HandleError(outcome), status |-> "failed",
            calls |-> <<Failure("create", Undef, ContentLength(content), outcome)>>,
            inserted |-> <<>>, doc |-> <<>>]
      ELSE [S |-> [log |-> SendMessage(S.log, S.nextMsg, content),
                   nextMsg |-> S.nextMsg + 1,
                   cache |-> CacheSet(S.cache, Id(docToInsert), insertedDoc)],
            raised |-> "none", status |-> "inserted",
            calls |-> <<Call("create", Str(message.id), ContentLength(content), TRUE)>>,
            inserted |-> <<[insertedId |-> Id(insertedDoc), messageId |-> message.id]>>,
            doc |-> <<insertedDoc>>]

\* What an operation leaves: the transport and the cache (S), lastCacheUpdate,
\* and the operation's record.
Outcome(S, last, rec) == [S |-> S, last |-> last, op |-> rec]

Store == [log |-> log, nextMsg |-> nextMsg, cache |-> cache]

\* The record of an operation on the store as it stands.
Begin(name) ==
  [NoOp EXCEPT !.name = name, !.before = cache, !.base = cache,
     !.age = now - lastCacheUpdate]

\* A lookup that takes the cache as never refreshed.
FindCoreReloading(filter, listOutcome) ==
  Only({IF g.raised # "none" THEN [g EXCEPT !.refs = <<>>] @@ [idx |-> <<>>]
        ELSE IF FilterThrows(RefDocs(g.refs), filter)
        THEN [g EXCEPT !.raised = HandleError("SyntaxError")] @@ [idx |-> <<>>]
        ELSE g @@ [idx |-> Matching(g.refs, filter, 1)] :
          g \in {GetAllDocuments(log, cache, 0, cacheTimeout, now, listOutcome)}})

\* The documents find reads and the positions of those matching the filter.
FindCore(filter, listOutcome) ==
  Only({IF g.raised # "none" THEN [g EXCEPT !.refs = <<>>] @@ [idx |-> <<>>]
        ELSE IF FilterThrows(RefDocs(g.refs), filter)
        THEN [g EXCEPT !.raised = HandleError("SyntaxError")] @@ [idx |-> <<>>]
        ELSE g @@ [idx |-> Matching(g.refs, filter, 1)] :
          g \in {GetAllDocuments(log, cache, lastCacheUpdate, cacheTimeout, now,
                                 listOutcome)}})

\* find taking its window before it sorts.
FindPaginatesFirst(name, filter, options, listOutcome) ==
  LET f == FindCore(filter, listOutcome)
      matched == [i \in 1..Len(f.idx) |-> f.refs[f.idx[i]].doc]
      total == Len(matched)
      paged == ApplyPagination(matched, options.skip, options.limit)
      sorted == IF options.sort # Undef THEN SortDocuments(paged, options.sort)
                ELSE paged
      filteredDocs == IF options.projection # Undef
                      THEN ApplyProjection(sorted, options.projection)
                      ELSE sorted
      hasMore == IF Truthy(options.limit)
                 THEN (IF Truthy(options.skip) THEN options.skip.num ELSE 0)
                        + Len(filteredDocs) < total
                 ELSE FALSE
  IN  Outcome([Store EXCEPT !.cache = f.cache], f.last,
        [Begin(name) EXCEPT !.filter = filter, !.options = options,
           !.raised = f.raised, !.calls = f.calls, !.base = f.cache,
           !.all = RefDocs(f.refs), !.found = filteredDocs, !.total = total,
           !.hasMore = hasMore])

\* find: the filter, then the sort, the count, the window and the projection.
FindWithOptions(name, filter, options, listOutcome) ==
  Only({
    LET matched == [i \in 1..Len(f.idx) |-> f.refs[f.idx[i]].doc]
        sorted == IF options.sort # Undef THEN SortDocuments(matched, options.sort)
                  ELSE matched
        total == Len(sorted)
        paged == ApplyPagination(sorted, options.skip, options.limit)
        filteredDocs == IF options.projection # Undef
                        THEN ApplyProjection(paged, options.projection)
                        ELSE paged
        hasMore == IF Truthy(options.limit)
                   THEN (IF Truthy(options.skip) THEN options.skip.num ELSE 0)
                          + Len(filteredDocs) < total
                   ELSE FALSE
    IN  Outcome([Store EXCEPT !.cache = f.cache], f.last,
          [Begin(name) EXCEPT !.filter = filter, !.options = options,
             !.raised = f.raised, !.calls = f.calls, !.base = f.cache,
             !.all = RefDocs(f.refs), !.found = filteredDocs, !.total = total,
             !.hasMore = hasMore]) :
      f \in {FindCore(filter, listOutcome)}})

\* find with no options, and findOne: find with limit 1.
FindOp(name, filter, listOutcome) ==
  FindWithOptions(name, filter,
    IF name = "findOne" THEN [NoOptions EXCEPT !.limit = Num(1)] ELSE NoOptions,
    listOutcome)

\* The object a reference holds changed in place: the cache holds that object.
CacheMutate(c, k, d) ==
  [j \in 1..Len(c) |-> IF c[j].key = k THEN [key |-> k, doc |-> d] ELSE c[j]]

\* cache.set(k, ...) or cache.delete(k): the objects held under k are no longer the cache's.
Unlive(refs, k) ==
  [j \in 1..Len(refs) |-> IF refs[j].key = k THEN [refs[j] EXCEPT !.live = FALSE] ELSE refs[j]]

\* One document of updateOne / updateMany: applyUpdate, the size check, the
\* transport edit and cache.set.
UpdateItem(S, refs, i, update, outcome) ==
  LET doc == refs[i].doc
      h == ApplyUpdateHeap(doc, update)
      cache1 == IF refs[i].live THEN CacheMutate(S.cache, refs[i].key, h.src) ELSE S.cache
      content == Stringify(h.upd)
      id == MessageId(doc)
  IN  IF ContentLength(content) > SizeLimit
      THEN [S |-> [S EXCEPT !.cache = cache1], refs |-> refs, status |-> "oversize",
            raised |-> "ValidationError", calls |-> <<>>]
      ELSE IF outcome # "ok" \/ ~HasMessage(S.log, id)
      THEN [S |-> [S EXCEPT !.cache = cache1], refs |-> refs, status |-> "failed",
            raised |-> HandleError(IF outcome # "ok" THEN outcome ELSE "NetworkError"),
            calls |-> <<Failure("edit", id, ContentLength(content),
                                IF outcome # "ok" THEN outcome ELSE "NetworkError")>>]
      ELSE [S |-> [S EXCEPT !.log = EditMessage(S.log, id, content),
                            !.cache = CacheSet(cache1, Id(doc), h.upd)],
            refs |-> Unlive(refs, Id(doc)), status |-> "modified", raised |-> "none",
            calls |-> <<Call("edit", id, ContentLength(content), TRUE)>>]

\* One document of deleteOne / deleteMany: the transport delete and cache.delete.
DeleteItem(S, refs, i, outcome) ==
  LET doc == refs[i].doc
      id == MessageId(doc)
  IN  IF outcome # "ok" \/ ~HasMessage(S.log, id)
      THEN [S |-> S, refs |-> refs, status |-> "failed",
            raised |-> HandleError(IF outcome # "ok" THEN outcome ELSE "NetworkError"),
            calls |-> <<Failure("delete", id, 0,
                                IF outcome # "ok" THEN outcome ELSE "NetworkError")>>]
      ELSE [S |-> [S EXCEPT !.log = DeleteMessage(S.log, id),
                            !.cache = CacheDelete(S.cache, Id(doc))],
            refs |-> Unlive(refs, Id(doc)), status |-> "deleted", raised |-> "none",
            calls |-> <<Call("delete", id, 0, TRUE)>>]

Count(statuses, st) == Cardinality({i \in 1..Len(statuses) : statuses[i] = st})

UpdateOneCore(filter, update, listOutcome, editOutcome) ==
  LET rec == [Begin("updateOne") EXCEPT !.filter = filter, !.update = update]
  IN  IF ~ValidateUpdate(update)
      THEN Outcome(Store, lastCacheUpdate, [rec EXCEPT !.raised = HandleError("Error")])
      ELSE Only({
             LET S1 == [Store EXCEPT !.cache = f.cache]
                 rec1 == [rec EXCEPT !.calls = f.calls, !.base = f.cache]
             IN  IF f.raised # "none"
                 THEN Outcome(S1, f.last, [rec1 EXCEPT !.raised = f.raised])
                 ELSE IF f.idx = <<>>
                 THEN Outcome(S1, f.last, [rec1 EXCEPT !.result = Acknowledged])
                 ELSE Only({
                        Outcome(r.S, f.last,
                          [rec1 EXCEPT !.raised = r.raised, !.calls = f.calls \o r.calls,
                             !.selected = <<f.refs[f.idx[1]].doc>>,
                             !.statuses = <<r.status>>,
                             !.result = IF r.raised = "none"
                                        THEN [Acknowledged EXCEPT !.matchedCount = 1,
                                                                  !.modifiedCount = 1]
                                        ELSE NoResult]) :
                          r \in {UpdateItem(S1, f.refs, f.idx[1], update, editOutcome)}}) :
               f \in {FindCore(filter, listOutcome)}})

DeleteOneCore(filter, listOutcome, deleteOutcome) ==
  Only({
    LET rec == [Begin("deleteOne") EXCEPT !.filter = filter]
        S1 == [Store EXCEPT !.cache = f.cache]
        rec1 == [rec EXCEPT !.calls = f.calls, !.base = f.cache]
    IN  IF f.raised # "none"
        THEN Outcome(S1, f.last, [rec1 EXCEPT !.raised = f.raised])
        ELSE IF f.idx = <<>>
        THEN Outcome(S1, f.last, [rec1 EXCEPT !.result = Acknowledged])
        ELSE Only({
               Outcome(r.S, f.last,
                 [rec1 EXCEPT !.raised = r.raised, !.calls = f.calls \o r.calls,
                    !.selected = <<f.refs[f.idx[1]].doc>>,
                    !.statuses = <<r.status>>,
                    !.result = IF r.raised = "none"
                               THEN [Acknowledged EXCEPT !.deletedCount = 1]
                               ELSE NoResult]) :
                 r \in {DeleteItem(S1, f.refs, f.idx[1], deleteOutcome)}}) :
      f \in {FindCore(filter, listOutcome)}})

\* The loops of updateMany and deleteMany over the matching documents.
RECURSIVE UpdateLoop(_, _, _, _, _, _, _)
UpdateLoop(S, refs, idx, update, outs, statuses, calls) ==
  IF Len(statuses) = Len(idx) THEN [S |-> S, statuses |-> statuses, calls |-> calls]
  ELSE LET k == Len(statuses) + 1
           r == UpdateItem(S, refs, idx[k], update, outs[k])
       IN  UpdateLoop(r.S, r.refs, idx, update, outs,
                      Append(statuses, r.status), calls \o r.calls)

RECURSIVE DeleteLoop(_, _, _, _, _, _)
DeleteLoop(S, refs, idx, outs, statuses, calls) ==
  IF Len(statuses) = Len(idx) THEN [S |-> S, statuses |-> statuses, calls |-> calls]
  ELSE LET k == Len(statuses) + 1
           r == DeleteItem(S, refs, idx[k], outs[k])
       IN  DeleteLoop(r.S, r.refs, idx, outs, Append(statuses, r.status), calls \o r.calls)

\* getAllDocuments and documents.filter, as updateMany, deleteMany and
\* countDocuments call them: a throwing filter is raised as thrown.
Lookup(filter, listOutcome) ==
  Only({IF g.raised # "none" THEN [g EXCEPT !.refs = <<>>] @@ [idx |-> <<>>]
        ELSE IF FilterThrows(RefDocs(g.refs), filter)
        THEN [g EXCEPT !.raised = "SyntaxError"] @@ [idx |-> <<>>]
        ELSE g @@ [idx |-> Matching(g.refs, filter, 1)] :
          g \in {GetAllDocuments(log, cache, lastCacheUpdate, cacheTimeout, now,
                                 listOutcome)}})

UpdateManyCore(filter, update, listOutcome, outs) ==
  LET rec == [Begin("updateMany") EXCEPT !.filter = filter, !.update = update]
  IN  IF ~ValidateUpdate(update)
      THEN Outcome(Store, lastCacheUpdate, [rec EXCEPT !.raised = HandleError("Error")])
      ELSE Only({
             LET S1 == [Store EXCEPT !.cache = f.cache]
                 rec1 == [rec EXCEPT !.calls = f.calls, !.base = f.cache]
             IN  IF f.raised # "none"
                 THEN Outcome(S1, f.last, [rec1 EXCEPT !.raised = HandleError(f.raised)])
                 ELSE Only({
                        Outcome(r.S, f.last,
                          [rec1 EXCEPT !.calls = f.calls \o r.calls,
                             !.selected = [i \in 1..Len(f.idx) |-> f.refs[f.idx[i]].doc],
                             !.statuses = r.statuses,
                             !.result = [Acknowledged EXCEPT
                                           !.matchedCount = Len(f.idx),
                                           !.modifiedCount = Count(r.statuses, "modified")]]) :
                          r \in {UpdateLoop(S1, f.refs, f.idx, update, outs, <<>>, <<>>)}}) :
               f \in {Lookup(filter, listOutcome)}})

\* deleteMany without the try around each delete: a failed delete is raised.
DeleteManyRaising(filter, listOutcome, outs) ==
  LET f == Lookup(filter, listOutcome)
      S1 == [Store EXCEPT !.cache = f.cache]
      rec1 == [Begin("deleteMany") EXCEPT !.filter = filter, !.calls = f.calls,
                 !.base = f.cache]
      r == DeleteLoop(S1, f.refs, f.idx, outs, <<>>, <<>>)
  IN  IF f.raised # "none"
      THEN Outcome(S1, f.last, [rec1 EXCEPT !.raised = HandleError(f.raised)])
      ELSE Outcome(r.S, f.last,
             [rec1 EXCEPT !.calls = f.calls \o r.calls,
                !.selected = [i \in 1..Len(f.idx) |-> f.refs[f.idx[i]].doc],
                !.statuses = r.statuses,
                !.raised = IF \E i \in 1..Len(r.statuses) : r.statuses[i] = "failed"
                           THEN "NetworkError" ELSE "none",
                !.result = [Acknowledged EXCEPT
                              !.deletedCount = Count(r.statuses, "deleted")]])

DeleteManyCore(filter, listOutcome, outs) ==
  Only({
    LET rec == [Begin("deleteMany") EXCEPT !.filter = filter]
        S1 == [Store EXCEPT !.cache = f.cache]
        rec1 == [rec EXCEPT !.calls = f.calls, !.base = f.cache]
    IN  IF f.raised # "none"
        THEN Outcome(S1, f.last, [rec1 EXCEPT !.raised = HandleError(f.raised)])
        ELSE Only({
               Outcome(r.S, f.last,
                 [rec1 EXCEPT !.calls = f.calls \o r.calls,
                    !.selected = [i \in 1..Len(f.idx) |-> f.refs[f.idx[i]].doc],
                    !.statuses = r.statuses,
                    !.result = [Acknowledged EXCEPT
                                  !.deletedCount = Count(r.statuses, "deleted")]]) :
                 r \in {DeleteLoop(S1, f.refs, f.idx, outs, <<>>, <<>>)}}) :
      f \in {Lookup(filter, listOutcome)}})

RECURSIVE InsertLoop(_, _, _, _, _, _, _)
InsertLoop(S, documents, outs, statuses, calls, inserted, stamped) ==
  IF Len(statuses) = Len(documents)
  THEN [S |-> S, statuses |-> statuses, calls |-> calls, inserted |-> inserted,
        stamped |-> stamped]
  ELSE LET k == Len(statuses) + 1
           r == InsertOneCore(S, documents[k], outs[k])
       IN  InsertLoop(r.S, documents, outs, Append(statuses, r.status),
                      calls \o r.calls, inserted \o r.inserted, stamped \o r.doc)

\* insertMany without the try around each insertOne: the first failure ends it.
InsertManyStopsAtFailure(documents, outs) ==
  LET all == InsertLoop(Store, documents, outs, <<>>, <<>>, <<>>, <<>>)
      bad == {i \in 1..Len(documents) : all.statuses[i] # "inserted"}
      n == IF bad = {} THEN Len(documents) ELSE CHOOSE i \in bad : \A j \in bad : i <= j
      r == InsertLoop(Store, SubSeq(documents, 1, n), outs, <<>>, <<>>, <<>>, <<>>)
  IN  Outcome(r.S, lastCacheUpdate,
        [Begin("insertMany") EXCEPT !.documents = documents, !.calls = r.calls,
           !.statuses = r.statuses, !.inserted = r.inserted, !.stamped = r.stamped,
           !.raised = IF bad = {} THEN "none" ELSE "DiscordDBError"])

InsertManyCore(documents, outs) ==
  Only({Outcome(r.S, lastCacheUpdate,
          [Begin("insertMany") EXCEPT !.documents = documents, !.calls = r.calls,
             !.statuses = r.statuses, !.inserted = r.inserted, !.stamped = r.stamped]) :
          r \in {InsertLoop(Store, documents, outs, <<>>, <<>>, <<>>, <<>>)}})

CountCore(name, filter, listOutcome) ==
  Only({Outcome([Store EXCEPT !.cache = f.cache], f.last,
          [Begin(name) EXCEPT !.filter = filter, !.raised = f.raised,
             !.calls = f.calls, !.base = f.cache,
             !.result = [NoResult EXCEPT !.count = Len(f.idx)]]) :
          f \in {Lookup(filter, listOutcome)}})

InsertOneOp(document, outcome) ==
  Only({Outcome(r.S, lastCacheUpdate,
          [Begin("insertOne") EXCEPT !.documents = <<document>>, !.raised = r.raised,
             !.calls = r.calls, !.statuses = <<r.status>>, !.inserted = r.inserted,
             !.stamped = r.doc]) :
          r \in {InsertOneCore(Store, document, outcome)}})

----------------------------------------------------------------------------
(* The operations of a store with the encryption layer: as above, with the *)
(* content serialized by SerializeDocument and the reload deserializing    *)
(* each message.                                                           *)

FindWithKey(name, filter, key, listOutcome) ==
  LET g == GetAllDocumentsWithKey(log, cache, lastCacheUpdate, cacheTimeout, now, key,
                                  listOutcome)
      idx == IF g.raised # "none" THEN <<>> ELSE Matching(g.refs, filter, 1)
      n == IF name = "findOne" /\ Len(idx) > 1 THEN 1 ELSE Len(idx)
  IN  Outcome([Store EXCEPT !.cache = g.cache], g.last,
        [Begin(name) EXCEPT !.filter = filter, !.raised = g.raised, !.calls = g.calls,
           !.base = g.cache, !.all = RefDocs(g.refs),
           !.found = [i \in 1..n |-> g.refs[idx[i]].doc], !.total = Len(idx)])

InsertOneWithKey(document, key, iv, outcome) ==
  LET docToInsert == PrepareDocumentForInsert(document, nextMsg)
      content == SerializeDocument(docToInsert, key, iv)
      message == Msg(nextMsg, content)
      insertedDoc == Stamp(docToInsert, message.id, message.timestamp)
      rec == [Begin("insertOne") EXCEPT !.documents = <<document>>]
  IN  IF ContentLength(content) > SizeLimit
      THEN Outcome(Store, lastCacheUpdate,
             [rec EXCEPT !.raised = "ValidationError", !.statuses = <<"oversize">>])
      ELSE IF outcome # "ok"
      THEN Outcome(Store, lastCacheUpdate,
             [rec EXCEPT !.raised = HandleError(outcome), !.statuses = <<"failed">>,
                !.sent = <<content>>,
                !.calls = <<Failure("create", Undef, ContentLength(content), outcome)>>])
      ELSE Outcome([log |-> SendMessage(log, nextMsg, content), nextMsg |-> nextMsg + 1,
                    cache |-> CacheSet(cache, Id(docToInsert), insertedDoc)],
             lastCacheUpdate,
             [rec EXCEPT !.statuses = <<"inserted">>, !.sent = <<content>>,
                !.calls = <<Call("create", Str(message.id), ContentLength(content), TRUE)>>,
                !.inserted = <<[insertedId |-> Id(insertedDoc), messageId |-> message.id]>>,
                !.stamped = <<insertedDoc>>])

\* The document updateOne found: the edit with the serialized update and cache.set.
UpdateItemWithKey(S, document, update, key, iv, editOutcome) ==
  LET updatedDoc == ApplyUpdate(document, update)
      content == SerializeDocument(updatedDoc, key, iv)
      id == MessageId(document)
      kind == IF editOutcome # "ok" THEN editOutcome ELSE "NetworkError"
  IN  IF ContentLength(content) > SizeLimit
      THEN [S |-> S, status |-> "oversize", raised |-> "ValidationError", calls |-> <<>>,
            sent |-> <<>>]
      ELSE IF editOutcome # "ok" \/ ~HasMessage(S.log, id)
      THEN [S |-> S, status |-> "failed", raised |-> HandleError(kind),
            calls |-> <<Failure("edit", id, ContentLength(content), kind)>>,
            sent |-> <<content>>]
      ELSE [S |-> [S EXCEPT !.log = EditMessage(S.log, id, content),
                            !.cache = CacheSet(S.cache, Id(document), updatedDoc)],
            status |-> "modified", raised |-> "none",
            calls |-> <<Call("edit", id, ContentLength(content), TRUE)>>,
            sent |-> <<content>>]

UpdateOneFound(f, rec, r) ==
  Outcome(r.S, f.last,
    [rec EXCEPT !.raised = r.raised, !.calls = f.op.calls \o r.calls,
       !.base = f.S.cache, !.selected = <<f.op.found[1]>>, !.statuses = <<r.status>>,
       !.sent = r.sent,
       !.result = IF r.raised = "none"
                  THEN [Acknowledged EXCEPT !.matchedCount = 1, !.modifiedCount = 1]
                  ELSE NoResult])

UpdateOneLookedUp(f, rec, update, key, iv, editOutcome) ==
  IF f.op.raised # "none" \/ f.op.found = <<>>
  THEN Outcome(f.S, f.last,
         [rec EXCEPT !.calls = f.op.calls, !.base = f.S.cache, !.raised = f.op.raised,
            !.result = IF f.op.raised = "none" THEN Acknowledged ELSE NoResult])
  ELSE UpdateOneFound(f, rec,
         UpdateItemWithKey(f.S, f.op.found[1], update, key, iv, editOutcome))

UpdateOneWithKey(filter, update, key, iv, listOutcome, editOutcome) ==
  IF ~ValidateUpdate(update)
  THEN Outcome(Store, lastCacheUpdate,
         [Begin("updateOne") EXCEPT !.filter = filter, !.update = update,
            !.raised = HandleError("Error")])
  ELSE UpdateOneLookedUp(FindWithKey("findOne", filter, key, listOutcome),
         [Begin("updateOne") EXCEPT !.filter = filter, !.update = update],
         update, key, iv, editOutcome)

----------------------------------------------------------------------------
(* History kept for the properties: the documents insertOne acknowledged   *)
(* and no write has selected since (acked), what the last updateOne left   *)
(* of its document (updated), and the documents deleteOne acknowledged     *)
(* while their identifier was unique in the log (deleted).                 *)

Range(seq) == {seq[i] : i \in 1..Len(seq)}

Forget(docs, selected) ==
  {d \in docs : \A i \in 1..Len(selected) : Id(selected[i]) # Id(d)}

UniqueInLog(l, id) ==
  Cardinality({i \in 1..Len(l) : Keeps(l[i]) /\ Id(l[i].content.json) = id}) = 1

Succeeded(rec, st) == {rec.selected[i] : i \in {j \in 1..Len(rec.statuses) : rec.statuses[j] = st}}

Commit(r) ==
  /\ log' = r.S.log
  /\ nextMsg' = r.S.nextMsg
  /\ cache' = r.S.cache
  /\ lastCacheUpdate' = r.last
  /\ op' = r.op
  /\ acked' = Forget(acked, r.op.selected) \cup Range(r.op.stamped)
  /\ updated' = IF r.op.name = "updateOne" /\ r.op.result.modifiedCount = 1
                THEN <<[id |-> Id(r.op.selected[1]),
                        doc |-> ApplyUpdate(r.op.selected[1], r.op.update)]>>
                ELSE <<>>
  /\ deleted' = IF r.op.name = "deleteOne"
                THEN deleted \cup {d \in Succeeded(r.op, "deleted") : UniqueInLog(log, Id(d))}
                ELSE deleted
  /\ UNCHANGED <<cacheTimeout, now, encryptionKey, inflight>>

----------------------------------------------------------------------------
(* The operations as actions, each over the inputs given to it *)

\* The single-document operations and find, the transport answering each call
\* with one of the given outcomes.
InsertOneUnder(documents, outcomes) ==
  \E document \in documents, outcome \in outcomes :
    /\ nextMsg <= MaxMsg
    /\ \E r \in {InsertOneOp(document, outcome)} : Commit(r)

InsertOne(documents) == InsertOneUnder(documents, Outcomes)

FindUnder(filters, outcomes) ==
  \E filter \in filters, listOutcome \in outcomes :
    \E r \in {FindOp("find", filter, listOutcome)} : Commit(r)

Find(filters) == FindUnder(filters, Outcomes)

FindWith(filters, optionSet) ==
  \E filter \in filters, options \in optionSet, listOutcome \in Outcomes :
    \E r \in {FindWithOptions("find", filter, options, listOutcome)} : Commit(r)

FindOne(filters) ==
  \E filter \in filters, listOutcome \in Outcomes :
    \E r \in {FindOp("findOne", filter, listOutcome)} :
      Commit([r EXCEPT !.op.expect = updated])

\* $inc stops at MaxAge.
MayUpdate(update) ==
  update = UpdInc =>
    \A i \in 1..Len(log) :
      Keeps(log[i]) => GetNestedValue(log[i].content.json, <<"age">>) # Num(MaxAge)

UpdateOneUnder(inputs, outcomes) ==
  \E in \in inputs, listOutcome \in outcomes, editOutcome \in outcomes :
    /\ MayUpdate(in[2])
    /\ \E r \in {UpdateOneCore(in[1], in[2], listOutcome, editOutcome)} : Commit(r)

UpdateOne(inputs) == UpdateOneUnder(inputs, Outcomes)

DeleteOneUnder(filters, outcomes) ==
  \E filter \in filters, listOutcome \in outcomes, deleteOutcome \in outcomes :
    \E r \in {DeleteOneCore(filter, listOutcome, deleteOutcome)} : Commit(r)

DeleteOne(filters) == DeleteOneUnder(filters, Outcomes)

InsertMany(batches) ==
  \E documents \in batches, outs \in BatchOutcomes :
    /\ nextMsg + Len(documents) - 1 <= MaxMsg
    /\ \E r \in {InsertManyCore(documents, outs)} : Commit(r)

UpdateMany(inputs) ==
  \E in \in inputs, listOutcome \in Outcomes, outs \in BatchOutcomes :
    /\ MayUpdate(in[2])
    /\ \E r \in {UpdateManyCore(in[1], in[2], listOutcome, outs)} : Commit(r)

DeleteMany(filters) ==
  \E filter \in filters, listOutcome \in Outcomes, outs \in BatchOutcomes :
    \E r \in {DeleteManyCore(filter, listOutcome, outs)} : Commit(r)

CountDocuments(filters) ==
  \E filter \in filters, listOutcome \in Outcomes :
    \E r \in {CountCore("countDocuments", filter, listOutcome)} : Commit(r)

Exists(filters) ==
  \E filter \in filters, listOutcome \in Outcomes :
    \E r \in {CountCore("exists", filter, listOutcome)} : Commit(r)

InsertOneEncrypting(documents) ==
  \E document \in documents, iv \in IVs, outcome \in Outcomes :
    /\ nextMsg <= MaxMsg
    /\ \E r \in {InsertOneWithKey(document, encryptionKey, iv, outcome)} : Commit(r)

FindDecrypting(filters) ==
  \E filter \in filters, listOutcome \in Outcomes :
    \E r \in {FindWithKey("find", filter, encryptionKey, listOutcome)} : Commit(r)

UpdateOneEncrypting(inputs) ==
  \E in \in inputs, iv \in IVs, listOutcome \in Outcomes, editOutcome \in Outcomes :
    \E r \in {UpdateOneWithKey(in[1], in[2], encryptionKey, iv, listOutcome, editOutcome)} :
      Commit(r)

Tick ==
  /\ now < StartTime + MaxTicks * TickStep
  /\ now' = now + TickStep
  /\ op' = [NoOp EXCEPT !.name = "tick"]
  /\ UNCHANGED <<log, nextMsg, cache, lastCacheUpdate, cacheTimeout, acked, updated, deleted,
                 encryptionKey, inflight>>

clearCache ==
  /\ cache' = <<>>
  /\ lastCacheUpdate' = 0
  /\ op' = [NoOp EXCEPT !.name = "clearCache"]
  /\ UNCHANGED <<log, nextMsg, cacheTimeout, now, acked, updated, deleted, encryptionKey,
                 inflight>>

setCacheTimeout ==
  \E timeoutMs \in Timeouts :
    /\ cacheTimeout' = timeoutMs
    /\ op' = [NoOp EXCEPT !.name = "setCacheTimeout", !.timeout = timeoutMs,
                !.base = cache]
    /\ UNCHANGED <<log, nextMsg, cache, lastCacheUpdate, now, acked, updated, deleted,
                   encryptionKey, inflight>>

Init ==
  /\ log \in InitLogs
  /\ nextMsg = Len(log) + 1
  /\ cache = <<>>
  /\ lastCacheUpdate = 0
  /\ cacheTimeout = DefaultTimeout
  /\ now = StartTime
  /\ acked = {}
  /\ updated = <<>>
  /\ deleted = {}
  /\ encryptionKey = Undef
  /\ inflight = <<>>
  /\ op = NoOp

\* Reads and the cache: inserts, every read, the clock and the cache controls.
Next ==
  \/ InsertOne(InsertDocs)
  \/ Find(Filters)
  \/ FindOne({FilterId("a")})
  \/ CountDocuments({FilterAge})
  \/ Exists({FilterAll})
  \/ Tick
  \/ clearCache
  \/ setCacheTimeout

Spec == Init /\ [][Next]_vars

\* Single-document updates.
NextUpdate ==
  \/ InsertOne({DocA})
  \/ UpdateOne({<<FilterId("a"), UpdInc>>, <<FilterId("a"), UpdId>>, <<FilterAll, UpdBad>>})
  \/ FindOne({FilterId("a"), FilterId("b")})
  \/ clearCache

SpecUpdate == Init /\ [][NextUpdate]_vars

\* Single-document deletes.
NextDelete ==
  \/ InsertOne({DocA})
  \/ UpdateOne({<<FilterId("a"), UpdId>>})
  \/ DeleteOne({FilterAll, FilterId("a")})
  \/ Find({FilterAll})
  \/ FindOne({FilterId("a")})
  \/ clearCache

SpecDelete == Init /\ [][NextDelete]_vars

\* Documents at the size ceiling.
NextSize ==
  \/ InsertOne({DocB, DocFit, DocBig})
  \/ UpdateOne({<<FilterId("b"), UpdFit>>, <<FilterId("b"), UpdBig>>})
  \/ Find({FilterAll})
  \/ clearCache

SpecSize == Init /\ [][NextSize]_vars

\* Batch operations.
NextBatch ==
  \/ InsertMany(Batches)
  \/ UpdateMany({<<FilterAll, UpdNested>>, <<FilterAll, UpdBig>>, <<FilterAll, UpdBad>>,
                 <<FilterBad, UpdNested>>})
  \/ DeleteMany({FilterAll, FilterBad})
  \/ Find({FilterAll})
  \/ clearCache

SpecBatch == Init /\ [][NextBatch]_vars

\* Update specifications: those validateUpdate rejects, one with operator and
\* field keys, one writing a managed attribute.
NextValidate ==
  \/ InsertOne({DocA})
  \/ UpdateOne({<<FilterAll, UpdBad>>, <<FilterId("a"), UpdMixed>>, <<FilterId("a"), UpdMsgId>>})
  \/ UpdateMany({<<FilterAll, UpdBad>>, <<FilterAll, UpdMixed>>})
  \/ Find({FilterAll})
  \/ clearCache

SpecValidate == Init /\ [][NextValidate]_vars

\* Transport failures of every kind in the single-document operations and find.
NextFailure ==
  \/ InsertOneUnder({DocB}, AnyOutcome)
  \/ UpdateOneUnder({<<FilterAll, UpdNested>>}, AnyOutcome)
  \/ DeleteOneUnder({FilterAll}, AnyOutcome)
  \/ FindUnder({FilterAll}, AnyOutcome)
  \/ clearCache

SpecFailure == Init /\ [][NextFailure]_vars

\* A store with the encryption layer, with and without a passphrase.
InitWithKey ==
  /\ log \in InitLogsWithKey
  /\ nextMsg = Len(log) + 1
  /\ cache = <<>>
  /\ lastCacheUpdate = 0
  /\ cacheTimeout = DefaultTimeout
  /\ now = StartTime
  /\ acked = {}
  /\ updated = <<>>
  /\ deleted = {}
  /\ encryptionKey \in {Undef, Passphrase}
  /\ inflight = <<>>
  /\ op = NoOp

NextEncrypt ==
  \/ InsertOneEncrypting({DocA, DocB})
  \/ UpdateOneEncrypting({<<FilterAll, UpdAge>>})
  \/ FindDecrypting({FilterAll})
  \/ clearCache

SpecEncrypt == InitWithKey /\ [][NextEncrypt]_vars

\* Queries: inserts and find with its options.
NextQuery ==
  \/ InsertOne(QueryDocs)
  \/ FindWith({FilterAll, FilterAge}, QueryOptions)
  \/ clearCache

SpecQuery == Init /\ [][NextQuery]_vars

\* Projections: inclusive, exclusive and mixed, with and without _id, on
\* top-level and on dotted keys.
Flag(path, val) == [path |-> path, val |-> val]

Projections ==
  {<<Flag(<<"age">>, 1)>>, <<Flag(<<"age">>, 1), Flag(<<"_id">>, 0)>>,
   <<Flag(<<"_id">>, 1)>>, <<Flag(<<"age">>, 0)>>, <<Flag(<<"_id">>, 0)>>,
   <<Flag(<<"age">>, 0), Flag(<<"p">>, 0)>>, <<Flag(<<"age">>, 1), Flag(<<"p">>, 0)>>,
   <<Flag(<<"p", "n">>, 1)>>, <<Flag(<<"p", "n">>, 0)>>}

ProjectOptions == {[NoOptions EXCEPT !.projection = [fields |-> p]] : p \in Projections}

NextProject ==
  \/ InsertOne(QueryDocs)
  \/ FindWith({FilterAll}, ProjectOptions)
  \/ clearCache

SpecProject == Init /\ [][NextProject]_vars

\* Reads and batch operations over a cache that is empty, fresh or stale, the
\* transport's list call failing or not.
NextReload ==
  \/ InsertOne({DocB})
  \/ Find({FilterAll})
  \/ CountDocuments({FilterAge})
  \/ UpdateMany({<<FilterAll, UpdAge>>})
  \/ Tick
  \/ clearCache

SpecReload == Init /\ [][NextReload]_vars

\* The four reads, find with every shape of options, over a cache that is
\* empty, fresh or stale.
ReadOptions ==
  { [sort |-> s.sort, skip |-> skip, limit |-> limit, projection |-> s.projection] :
      s \in Shapes, skip \in {Undef, Num(MaxSkip)}, limit \in {Undef, Num(MaxLimit)} }

NextRead ==
  \/ InsertOne(QueryDocs)
  \/ FindWith({FilterAll, FilterAge}, ReadOptions)
  \/ FindOne({FilterAge})
  \/ CountDocuments({FilterAge})
  \/ Exists({FilterAll})
  \/ Tick
  \/ clearCache

SpecRead == Init /\ [][NextRead]_vars

----------------------------------------------------------------------------
(* The functions of utils/filters.ts and utils/updates.ts on their own: a  *)
(* behaviour starts with the arguments of one call, over an idle store,    *)
(* and its one step is the call.                                           *)

InitArguments(arguments) ==
  /\ log = <<>>
  /\ nextMsg = 1
  /\ cache = <<>>
  /\ lastCacheUpdate = 0
  /\ cacheTimeout = DefaultTimeout
  /\ now = StartTime
  /\ acked = {}
  /\ updated = <<>>
  /\ deleted = {}
  /\ encryptionKey = Undef
  /\ inflight = <<>>
  /\ op \in arguments

Return(rec) ==
  /\ op' = rec
  /\ UNCHANGED <<log, nextMsg, cache, lastCacheUpdate, cacheTimeout, now, acked, updated,
                 deleted, encryptionKey, inflight>>

\* The documents filters are matched against: age absent or 1..MaxAge, the
\* mapping p absent, {n: 1}, {n: 2} or {n: 1, m: 1}.
Ages == {Undef} \cup {Num(n) : n \in 1..MaxAge}
Mappings ==
  {Undef, Obj("n" :> Num(1)), Obj("n" :> Num(2)), Obj(("n" :> Num(1)) @@ ("m" :> Num(1)))}

WithField(doc, k, v) == IF v = Undef THEN doc ELSE Put(doc, k, v)

FilterDocs ==
  {WithField(WithField("_id" :> Str("a"), "age", a), "p", p) : a \in Ages, p \in Mappings}

Field(path, lit) == [path |-> path, lit |-> lit]
Ops(path, operator, arg) == [path |-> path, ops |-> <<[op |-> operator, arg |-> arg]>>]

\* { age: { $not: { $lt: 2 } } }
NotLt == Ops(<<"age">>, "$not", [ops |-> <<[op |-> "$lt", arg |-> Num(2)]>>])
\* { p: { n: 1 } }
LitMapping == Field(<<"p">>, Obj("n" :> Num(1)))

FilterKeys ==
  {Field(<<"age">>, Num(1)), Ops(<<"age">>, "$lt", Num(2)), Ops(<<"age">>, "$gte", Num(2)),
   Ops(<<"age">>, "$in", Arr(<<Num(1), Num(3)>>)), Field(<<"p", "n">>, Num(1)),
   Ops(<<"p">>, "$exists", Bool(TRUE)), NotLt, LitMapping}

SubFilters == {<<>>} \cup {<<k>> : k \in FilterKeys}

FilterInputs ==
  SubFilters
    \cup {<<j, k>> : j \in FilterKeys, k \in FilterKeys}
    \cup {<<[and |-> fs]>> : fs \in {<<>>} \cup (SubFilters \X SubFilters)}
    \cup {<<[or |-> fs]>> : fs \in {<<>>} \cup (SubFilters \X SubFilters)}
    \cup {<<[not |-> g]>> : g \in SubFilters}

FilterArguments ==
  {[NoOp EXCEPT !.name = "arguments", !.documents = <<d>>, !.filter = g] :
     d \in FilterDocs, g \in FilterInputs}

matchesFilter ==
  /\ op.name = "arguments"
  /\ Return([op EXCEPT !.name = "matchesFilter",
                       !.value = Bool(MatchesFilter(op.documents[1], op.filter))])

SpecFilter == InitArguments(FilterArguments) /\ [][matchesFilter]_vars

\* The documents updates are applied to: the field f absent or one of these
\* values, the mapping p absent or {n: 1}.
MaxSteps == 2

Mapping == Obj("n" :> Num(1))

FieldValues ==
  {Undef, Null, Num(0), Num(1), Bool(FALSE), Bool(TRUE), Str(""), Str("x"), Mapping,
   Arr(<<>>), Arr(<<Num(1)>>), Arr(<<Num(2)>>), Arr(<<Num(2), Num(1), Num(1)>>),
   Arr(<<Mapping>>)}

UpdateDocs ==
  {WithField(WithField("_id" :> Str("a"), "f", v), "p", p) :
     v \in FieldValues, p \in {Undef, Mapping}}

\* { g: { path: arg } } and the direct update { path: val }
GroupOf(g, path, arg) == [key |-> g, val |-> <<[path |-> path, arg |-> arg]>>]
Direct(path, val) == [key |-> Dotted(path), val |-> val]

FieldGroups ==
  {GroupOf("$set", <<"f">>, Num(5)), GroupOf("$unset", <<"f">>, Num(1)),
   GroupOf("$inc", <<"f">>, Num(1)), GroupOf("$push", <<"f">>, Num(1)),
   GroupOf("$pull", <<"f">>, Num(1)), GroupOf("$addToSet", <<"f">>, Num(1))}

MoreGroups ==
  {GroupOf("$push", <<"f">>, Mapping), GroupOf("$pull", <<"f">>, Mapping),
   GroupOf("$addToSet", <<"f">>, Mapping), GroupOf("$set", <<"p", "n">>, Num(2)),
   GroupOf("$inc", <<"p", "n">>, Num(1))}

UpdateSpecs ==
  {<<g>> : g \in FieldGroups \cup MoreGroups}
    \cup {u \in {<<g, h>> : g \in FieldGroups, h \in FieldGroups} : u[1].key # u[2].key}
    \cup {<<Direct(<<"f">>, Num(5))>>, <<Direct(<<"p", "n">>, Num(2))>>,
          <<Direct(<<"f">>, Num(5)), Direct(<<"p", "n">>, Num(2))>>}

UpdateArguments ==
  {[NoOp EXCEPT !.name = "arguments", !.documents = <<d>>] : d \in UpdateDocs}

\* applyUpdate on the document of the arguments, then on what it returned.
applyUpdate ==
  /\ op.name \in {"arguments", "applyUpdate"}
  /\ Len(op.steps) < MaxSteps
  /\ \E update \in UpdateSpecs :
       LET document == IF op.steps = <<>> THEN op.documents[1]
                       ELSE op.steps[Len(op.steps)].result
       IN  Return([op EXCEPT !.name = "applyUpdate", !.update = update,
                     !.steps = Append(@, [document |-> document, update |-> update,
                                          result |-> ApplyUpdate(document, update)])])

SpecApplyUpdate == InitArguments(UpdateArguments) /\ [][applyUpdate]_vars

\* The lists sortDocuments is given: up to MaxList documents, their age
\* absent or 1..MaxAge, equal ages told apart by the identifier.
MaxList == 3

SortDocs == {WithField("_id" :> Str(id), "age", a) : id \in {"a", "b"}, a \in Ages}

SortLists == UNION {[1..n -> SortDocs] : n \in 0..MaxList}

Directions == {Num(1), Num(-1), Str("asc"), Str("desc")}

SortArguments ==
  {[NoOp EXCEPT !.name = "arguments", !.documents = l] : l \in SortLists}

\* sortDocuments on the list of the arguments, by age in one direction.
sortDocuments ==
  /\ op.name \in {"arguments", "sortDocuments"}
  /\ Len(op.steps) < MaxSteps
  /\ \E direction \in Directions :
       LET sortOption == [by |-> <<[path |-> <<"age">>, dir |-> direction]>>]
       IN  Return([op EXCEPT !.name = "sortDocuments",
                     !.steps = Append(@, [sortOption |-> sortOption,
                                          result |-> SortDocuments(op.documents,
                                                                   sortOption)])])

SpecSort == InitArguments(SortArguments) /\ [][sortDocuments]_vars

----------------------------------------------------------------------------
(* getAllMessages: the paginated listing of the channel *)

BatchSize == 100
DefaultMaxMessages == 1000
MaxLog == 250

Min(a, b) == IF a < b THEN a ELSE b

\* The transport's answer to getMessages(limit, before): the newest messages
\* older than the cursor, at most min(limit, 100) of them, newest first.
GetMessages(l, limit, before) ==
  LET start == IF before = Undef THEN 0
               ELSE IF \E i \in 1..Len(l) : Str(l[i].id) = before
               THEN CHOOSE i \in 1..Len(l) : Str(l[i].id) = before
               ELSE Len(l)
      count == Min(Min(limit, BatchSize), Len(l) - start)
  IN  SubSeq(l, start + 1, start + count)

\* before = messages[messages.length - 1].id
NextCursorFirst(messages) == Str(messages[1].id)
NextCursor(messages) == Str(messages[Len(messages)].id)

\* A log of n messages, the newest first.
PagedLog(n) == [i \in 1..n |-> Msg(n + 1 - i, "{}")]

LogSizes == {0, 1, BatchSize - 1, BatchSize, BatchSize + 1, 2 * BatchSize, MaxLog}
MaxMessagesArguments ==
  {0, 1, BatchSize - 1, BatchSize, BatchSize + 1, BatchSize + 50, 2 * BatchSize, MaxLog,
   DefaultMaxMessages}

InitGetAllMessages ==
  /\ log \in {PagedLog(n) : n \in LogSizes}
  /\ nextMsg = Len(log) + 1
  /\ cache = <<>>
  /\ lastCacheUpdate = 0
  /\ cacheTimeout = DefaultTimeout
  /\ now = StartTime
  /\ acked = {}
  /\ updated = <<>>
  /\ deleted = {}
  /\ encryptionKey = Undef
  /\ inflight = <<>>
  /\ op \in {[NoOp EXCEPT !.name = "getAllMessages", !.pc = "loop", !.maxMessages = m] :
               m \in MaxMessagesArguments}

\* One iteration of the loop: a request for the next batch; an empty batch
\* leaves the loop.
getAllMessagesLoop ==
  /\ op.name = "getAllMessages"
  /\ op.pc = "loop"
  /\ Len(op.allMessages) < op.maxMessages
  /\ LET remaining == op.maxMessages - Len(op.allMessages)
         limit == Min(remaining, BatchSize)
         messages == GetMessages(log, limit, op.value)
         request == [limit |-> limit, before |-> op.value, messages |-> messages]
     IN  IF Len(messages) = 0
         THEN Return([op EXCEPT !.steps = Append(@, request), !.pc = "return"])
         ELSE Return([op EXCEPT !.steps = Append(@, request),
                                !.allMessages = @ \o messages,
                                !.value = NextCursor(messages)])

\* The loop is over: return allMessages.slice(0, maxMessages).
getAllMessagesReturn ==
  /\ op.name = "getAllMessages"
  /\ \/ op.pc = "return"
     \/ op.pc = "loop" /\ Len(op.allMessages) >= op.maxMessages
  /\ Return([op EXCEPT !.pc = "done",
                       !.all = SubSeq(op.allMessages, 1,
                                      Min(op.maxMessages, Len(op.allMessages)))])

NextGetAllMessages == getAllMessagesLoop \/ getAllMessagesReturn

\* The loop has no await but the request, and every request is answered.
SpecGetAllMessages ==
  InitGetAllMessages /\ [][NextGetAllMessages]_vars /\ WF_vars(NextGetAllMessages)

----------------------------------------------------------------------------
(* Overlapping calls: operations started and not awaited, each suspended at *)
(* its transport call until the response arrives                           *)

MaxCalls == 2
Slots == 1..MaxCalls

\* A call that was not started.
Idle ==
  [name |-> "none", pc |-> "idle", filter |-> <<>>, update |-> <<>>, document |-> <<>>,
   t |-> 0, messages |-> <<>>, selected |-> <<>>, updatedDoc |-> <<>>,
   content |-> [raw |-> ""], ok |-> TRUE, raised |-> "none", result |-> NoResult,
   found |-> <<>>, duringReload |-> FALSE]

\* The requests the transport has not served, and the responses on their way.
Requests == {"list", "send", "edit", "delete"}
Responses == {"listed", "sent", "edited", "deleted"}

\* A reload's list call is in flight: issued, the cache not yet replaced.
Reloading(rec) == rec.pc \in {"list", "listed"}

\* getAllDocuments from the answer of the list call on: the cache is cleared
\* and filled, and stamped with the time the call began.
ReloadFrom(messages, t) ==
  LET documents == ParsedDocuments(messages)
  IN  [cache |-> FillCache(<<>>, documents), last |-> t,
       refs |-> [i \in 1..Len(documents) |->
                  [doc |-> documents[i], key |-> Id(documents[i]),
                   live |-> \A j \in (i+1)..Len(documents) :
                               Id(documents[j]) # Id(documents[i])]]]

\* The call from the documents getAllDocuments returned up to its next
\* transport call or its return; c is the cache at that time.
Proceed(rec, refs, c) ==
  LET idx == Matching(refs, rec.filter, 1)
      first == refs[idx[1]]
      h == ApplyUpdateHeap(first.doc, rec.update)
  IN  IF rec.name = "find"
      THEN [cache |-> c,
            rec |-> [rec EXCEPT !.pc = "done",
                       !.found = [i \in 1..Len(idx) |-> refs[idx[i]].doc]]]
      ELSE IF idx = <<>>
      THEN [cache |-> c, rec |-> [rec EXCEPT !.pc = "done", !.result = Acknowledged]]
      ELSE IF rec.name = "deleteOne"
      THEN [cache |-> c, rec |-> [rec EXCEPT !.pc = "delete", !.selected = <<first.doc>>]]
      ELSE IF ContentLength(Stringify(h.upd)) > SizeLimit
      THEN [cache |-> IF first.live THEN CacheMutate(c, first.key, h.src) ELSE c,
            rec |-> [rec EXCEPT !.pc = "done", !.selected = <<first.doc>>,
                       !.raised = "ValidationError"]]
      ELSE [cache |-> IF first.live THEN CacheMutate(c, first.key, h.src) ELSE c,
            rec |-> [rec EXCEPT !.pc = "edit", !.selected = <<first.doc>>,
                       !.updatedDoc = <<h.upd>>, !.content = Stringify(h.upd)]]

\* The calls made: one insert, two different updates of one document, its
\* delete, and a find.
OverlapCalls ==
  { [Idle EXCEPT !.name = "find", !.filter = FilterAll],
    [Idle EXCEPT !.name = "insertOne", !.document = <<DocC>>],
    [Idle EXCEPT !.name = "updateOne", !.filter = FilterId("a"), !.update = UpdAge],
    [Idle EXCEPT !.name = "updateOne", !.filter = FilterId("a"), !.update = UpdNested],
    [Idle EXCEPT !.name = "deleteOne", !.filter = FilterId("a")] }

\* The store holds one document; its cache is empty or was just loaded.
InitOverlap ==
  /\ log = <<Msg(1, Stringify(DocA))>>
  /\ nextMsg = 2
  /\ now = StartTime
  /\ \/ cache = <<>> /\ lastCacheUpdate = 0
     \/ cache = FillCache(<<>>, ParsedDocuments(log)) /\ lastCacheUpdate = now
  /\ cacheTimeout = DefaultTimeout
  /\ acked = {}
  /\ updated = <<>>
  /\ deleted = {}
  /\ encryptionKey = Undef
  /\ inflight = [c \in Slots |-> Idle]
  /\ op = NoOp

\* A call is started and runs to its first transport call: insertOne to
\* sendMessage, the others to the list call of a reload when the cache is not
\* fresh, and from a fresh cache as far as Proceed takes them.
startCall ==
  \E c \in Slots, call \in OverlapCalls :
    /\ inflight[c].pc = "idle"
    /\ \A b \in 1..(c - 1) : inflight[b].pc # "idle"
    /\ LET rec == [call EXCEPT !.t = now]
           docToInsert == PrepareDocumentForInsert(call.document[1], nextMsg)
       IN  IF call.name = "insertOne"
           THEN /\ inflight' =
                     [inflight EXCEPT ![c] =
                        IF ContentLength(Stringify(docToInsert)) > SizeLimit
                        THEN [rec EXCEPT !.pc = "done", !.raised = "ValidationError"]
                        ELSE [rec EXCEPT !.pc = "send", !.document = <<docToInsert>>,
                                         !.content = Stringify(docToInsert)]]
                /\ cache' = cache
           ELSE IF IsFresh(cache, lastCacheUpdate, cacheTimeout, now)
           THEN \E p \in {Proceed(rec,
                            [i \in 1..Len(cache) |->
                               [doc |-> cache[i].doc, key |-> cache[i].key, live |-> TRUE]],
                            cache)} :
                  /\ inflight' = [inflight EXCEPT ![c] = p.rec]
                  /\ cache' = p.cache
           ELSE /\ inflight' = [inflight EXCEPT ![c] = [rec EXCEPT !.pc = "list"]]
                /\ cache' = cache
    /\ UNCHANGED <<log, nextMsg, lastCacheUpdate, cacheTimeout, now, acked, updated, deleted,
                   encryptionKey, op>>

\* The transport serves one of the requests it holds, in any order: it lists
\* the channel, creates, edits or deletes a message.
transportServes ==
  \E c \in Slots :
    /\ inflight[c].pc \in Requests
    /\ LET rec == inflight[c]
           id == MessageId(rec.selected[1])
       IN  CASE rec.pc = "list" ->
                  /\ inflight' = [inflight EXCEPT ![c] =
                                    [rec EXCEPT !.pc = "listed", !.messages = log]]
                  /\ UNCHANGED <<log, nextMsg>>
             [] rec.pc = "send" ->
                  /\ inflight' = [inflight EXCEPT ![c] =
                                    [rec EXCEPT !.pc = "sent",
                                                !.messages = <<Msg(nextMsg, rec.content)>>]]
                  /\ log' = SendMessage(log, nextMsg, rec.content)
                  /\ nextMsg' = nextMsg + 1
             [] rec.pc = "edit" ->
                  /\ inflight' = [inflight EXCEPT ![c] =
                                    [rec EXCEPT !.pc = "edited", !.ok = HasMessage(log, id)]]
                  /\ log' = IF HasMessage(log, id) THEN EditMessage(log, id, rec.content)
                            ELSE log
                  /\ UNCHANGED nextMsg
             [] rec.pc = "delete" ->
                  /\ inflight' = [inflight EXCEPT ![c] =
                                    [rec EXCEPT !.pc = "deleted", !.ok = HasMessage(log, id)]]
                  /\ log' = IF HasMessage(log, id) THEN DeleteMessage(log, id) ELSE log
                  /\ UNCHANGED nextMsg
    /\ UNCHANGED <<cache, lastCacheUpdate, cacheTimeout, now, acked, updated, deleted,
                   encryptionKey, op>>

\* A response arrives, in any order, and its call runs on: the reload replaces
\* the cache and the call proceeds; insertOne, updateOne and deleteOne write
\* the cache and return.
responseArrives ==
  \E c \in Slots :
    /\ inflight[c].pc \in Responses
    /\ LET rec == inflight[c]
           during == \E b \in Slots \ {c} : Reloading(inflight[b])
           failed == [rec EXCEPT !.pc = "done", !.raised = HandleError("NetworkError")]
           message == rec.messages[1]
           insertedDoc == Stamp(rec.document[1], message.id, message.timestamp)
       IN  CASE rec.pc = "listed" ->
                  \E r \in {ReloadFrom(rec.messages, rec.t)} :
                    \E p \in {Proceed(rec, r.refs, r.cache)} :
                      /\ inflight' = [inflight EXCEPT ![c] = p.rec]
                      /\ cache' = p.cache
                      /\ lastCacheUpdate' = r.last
             [] rec.pc = "sent" ->
                  /\ inflight' = [inflight EXCEPT ![c] =
                       [rec EXCEPT !.pc = "done", !.result = Acknowledged,
                                   !.selected = <<insertedDoc>>, !.duringReload = during]]
                  /\ cache' = CacheSet(cache, Id(insertedDoc), insertedDoc)
                  /\ UNCHANGED lastCacheUpdate
             [] rec.pc = "edited" ->
                  /\ inflight' = [inflight EXCEPT ![c] =
                       IF rec.ok
                       THEN [rec EXCEPT !.pc = "done", !.duringReload = during,
                               !.result = [Acknowledged EXCEPT !.matchedCount = 1,
                                                               !.modifiedCount = 1]]
                       ELSE failed]
                  /\ cache' = IF rec.ok
                              THEN CacheSet(cache, Id(rec.selected[1]), rec.updatedDoc[1])
                              ELSE cache
                  /\ UNCHANGED lastCacheUpdate
             [] rec.pc = "deleted" ->
                  /\ inflight' = [inflight EXCEPT ![c] =
                       IF rec.ok
                       THEN [rec EXCEPT !.pc = "done", !.duringReload = during,
                               !.result = [Acknowledged EXCEPT !.deletedCount = 1]]
                       ELSE failed]
                  /\ cache' = IF rec.ok THEN CacheDelete(cache, Id(rec.selected[1]))
                              ELSE cache
                  /\ UNCHANGED lastCacheUpdate
    /\ UNCHANGED <<log, nextMsg, cacheTimeout, now, acked, updated, deleted, encryptionKey,
                   op>>

NextOverlap == startCall \/ transportServes \/ responseArrives

SpecOverlap == InitOverlap /\ [][NextOverlap]_vars

----------------------------------------------------------------------------
(* Properties *)

\* The document a message holds, as a reload stamps it.
DocOf(m) == Stamp(m.content.json, m.id, m.timestamp)

ReadOps == {"find", "findOne", "countDocuments", "exists"}

ListCalls(rec) == Cardinality({i \in 1..Len(rec.calls) : rec.calls[i].fn = "list"})

Reloaded(rec) == \E i \in 1..Len(rec.calls) : rec.calls[i].fn = "list" /\ rec.calls[i].ok

\* A document without the attributes the store manages.
UserFields(doc) == Del(Del(doc, "_messageId"), "_timestamp")

\* C1: read-your-insert.  A find that returns, whether served from the fresh
\* cache or after a reload, returns every document that insertOne
\* acknowledged, that no write has selected since, and that its filter
\* matches (the document as the caller gave it, whatever message holds it).
C1_ReadYourInsert ==
  (op.name = "find" /\ op.raised = "none") =>
    \A d \in acked :
      MatchesFilter(d, op.filter) =>
        \E i \in 1..Len(op.found) : UserFields(op.found[i]) = UserFields(d)

\* C4: the cache is a full snapshot.  In no state does the cache hold the
\* document of some message of the log while the log holds a document the
\* cache has no entry for.
C4_FullSnapshot ==
  (\E i \in 1..Len(log), j \in 1..Len(cache) : Keeps(log[i]) /\ cache[j].doc = DocOf(log[i]))
    => \A i \in 1..Len(log) :
         Keeps(log[i]) => \E j \in 1..Len(cache) : cache[j].doc = DocOf(log[i])

\* The cache as the operation found it was non-empty and younger than the
\* staleness threshold.
WasFresh(rec) == Len(rec.before) > 0 /\ rec.age < cacheTimeout

C6_ReloadExact ==
  (op.name \in ReadOps /\ Reloaded(op)) =>
    /\ \A i \in 1..Len(log) :
         Keeps(log[i]) => \E j \in 1..Len(op.base) : op.base[j].doc = DocOf(log[i])
    /\ \A j \in 1..Len(op.base) :
         \E i \in 1..Len(log) : Keeps(log[i]) /\ op.base[j].doc = DocOf(log[i])
    /\ op.raised # "none" => FilterThrows(ParsedDocuments(log), op.filter)

\* C2: read-your-update.  The findOne that follows an updateOne reporting
\* modifiedCount 1 for document d, asked for d's identifier, returns
\* applyUpdate(d, U), from the cache and after a reload alike.
C2_ReadYourUpdate ==
  (/\ op.name = "findOne" /\ op.raised = "none"
   /\ op.expect # <<>>
   /\ op.filter = <<[path |-> <<"_id">>, lit |-> op.expect[1].id]>>)
    => op.found = <<op.expect[1].doc>>

\* C3: delete is final.  Once deleteOne has reported deletedCount 1 for a
\* document whose identifier was unique in the log, the log no longer holds
\* its message and no find or findOne returns the document.
C3_DeleteFinal ==
  \A d \in deleted :
    /\ ~HasMessage(log, MessageId(d))
    /\ op.name \in {"find", "findOne"} =>
         \A i \in 1..Len(op.found) : MessageId(op.found[i]) # MessageId(d)

\* The serialized document of an insertOne or updateOne is longer than the
\* ceiling, or exactly as long.
Serialized(rec) ==
  IF rec.name = "insertOne"
  THEN <<ContentLength(Stringify(PrepareDocumentForInsert(rec.documents[1], nextMsg)))>>
  ELSE IF rec.name = "updateOne" /\ rec.selected # <<>>
  THEN <<ContentLength(Stringify(ApplyUpdate(rec.selected[1], rec.update)))>>
  ELSE <<>>

WriteCalls(rec) == {i \in 1..Len(rec.calls) : rec.calls[i].fn \in {"create", "edit"}}

\* C7: the size ceiling.  No content longer than 2000 characters goes to the
\* transport's create or edit; an insertOne or updateOne whose serialized
\* document is longer raises ValidationError, calls neither, and leaves the
\* cache as it was; a serialized document of exactly 2000 characters is sent.
C7_SizeCeiling ==
  /\ \A i \in WriteCalls(op) : op.calls[i].len <= SizeLimit
  /\ \A k \in Range(Serialized(op)) :
       /\ k > SizeLimit =>
            op.raised = "ValidationError" /\ WriteCalls(op) = {} /\ cache = op.base
       /\ k = SizeLimit => \E i \in WriteCalls(op) : op.calls[i].len = SizeLimit

\* The positions of a batch's documents that ended with the given status.
With(rec, st) == {i \in 1..Len(rec.statuses) : rec.statuses[i] = st}

OkCalls(rec, fn) == {i \in 1..Len(rec.calls) : rec.calls[i].fn = fn /\ rec.calls[i].ok}

Entry(c, k) == IF k \in CacheKeys(c) THEN <<CacheGet(c, k)>> ELSE <<>>

\* No document of the batch with the same identifier succeeded.
Alone(rec, i) ==
  \A j \in With(rec, "modified") \cup With(rec, "deleted") : Id(rec.selected[j]) # Id(rec.selected[i])

\* C8: batch accounting.  updateMany and deleteMany attempt every matching
\* document once; matchedCount is the number of matching documents,
\* modifiedCount / deletedCount the number whose transport call succeeded;
\* the cache is changed for those documents and for no other.
C8_BatchAccounting ==
  (op.name \in {"updateMany", "deleteMany"} /\ op.raised = "none") =>
    /\ Len(op.statuses) = Len(op.selected)
    /\ op.name = "updateMany" =>
         /\ op.result.matchedCount = Len(op.selected)
         /\ op.result.modifiedCount = Cardinality(OkCalls(op, "edit"))
         /\ op.result.modifiedCount <= op.result.matchedCount
    /\ op.name = "deleteMany" => op.result.deletedCount = Cardinality(OkCalls(op, "delete"))
    /\ \A i \in 1..Len(op.selected) :
         /\ (op.statuses[i] \in {"failed", "oversize"} /\ Alone(op, i)) =>
              Entry(cache, Id(op.selected[i])) = Entry(op.base, Id(op.selected[i]))
         /\ op.statuses[i] = "deleted" => Entry(cache, Id(op.selected[i])) = <<>>
         /\ (op.statuses[i] = "modified"
               /\ \A j \in With(op, "modified") : j > i => Id(op.selected[j]) # Id(op.selected[i]))
              => Entry(cache, Id(op.selected[i])) = <<ApplyUpdate(op.selected[i], op.update)>>

\* The positions, in order, of a batch's documents that ended with the given status.
RECURSIVE Positions(_, _, _)
Positions(statuses, st, i) ==
  IF i > Len(statuses) THEN <<>>
  ELSE IF statuses[i] = st THEN <<i>> \o Positions(statuses, st, i + 1)
  ELSE Positions(statuses, st, i + 1)

Fits(document) == ContentLength(Stringify(document)) <= SizeLimit

\* C9: insertMany returns the InsertResults of exactly the documents whose
\* insertion succeeded, in input order.  An item that is oversize or whose
\* transport call fails is left out, raises nothing, adds nothing to the
\* cache, and the items after it are still attempted.
C9_InsertMany ==
  op.name = "insertMany" =>
    LET ok == Positions(op.statuses, "inserted", 1)
    IN  /\ op.raised = "none"
        /\ Len(op.statuses) = Len(op.documents)
        /\ Cardinality({i \in 1..Len(op.calls) : op.calls[i].fn = "create"})
             = Cardinality({k \in 1..Len(op.documents) : Fits(op.documents[k])})
        /\ Len(ok) = Cardinality(OkCalls(op, "create"))
        /\ Len(op.inserted) = Len(ok)
        /\ \A j \in 1..Len(ok) :
             /\ op.inserted[j].insertedId = Id(op.documents[ok[j]])
             /\ \E i \in 1..Len(log) :
                  /\ log[i].id = op.inserted[j].messageId
                  /\ log[i].content = Stringify(op.documents[ok[j]])
        /\ CacheKeys(cache) = CacheKeys(op.before) \cup {Id(op.documents[ok[j]]) : j \in 1..Len(ok)}
        /\ \A k \in 1..Len(op.documents) :
             (\A j \in 1..Len(ok) : Id(op.documents[ok[j]]) # Id(op.documents[k]))
               => Entry(cache, Id(op.documents[k])) = Entry(op.before, Id(op.documents[k]))

\* insertMany went past a document the transport refused and inserted the next.
C9_Witness ==
  /\ op.name = "insertMany"
  /\ op.statuses = <<"failed", "inserted">>
  /\ Len(op.inserted) = 1

ListFailed(rec) == \E i \in 1..Len(rec.calls) : rec.calls[i].fn = "list" /\ ~rec.calls[i].ok

BatchOps == {"insertMany", "updateMany", "deleteMany"}

CacheDocs(c) == [i \in 1..Len(c) |-> c[i].doc]

\* C10: a batch operation raises only when the reload of the base document
\* set fails.
C10_BatchRaises ==
  (op.name \in BatchOps /\ op.raised # "none") => ListFailed(op)

\* C10 as the store keeps it: a batch operation raises exactly when the
\* reload fails, when updateMany's update specification is rejected, or when
\* evaluating the filter throws; a failure of an individual item is never raised.
C10_BatchRaisesAmended ==
  op.name \in BatchOps =>
    (op.raised # "none"
       <=> \/ ListFailed(op)
           \/ op.name = "updateMany" /\ ~ValidateUpdate(op.update)
           \/ /\ op.name # "insertMany"
              /\ (op.name = "updateMany" => ValidateUpdate(op.update))
              /\ ~ListFailed(op)
              /\ FilterThrows(CacheDocs(op.base), op.filter))

\* A batch operation raised because its reload failed.
C10_Witness ==
  /\ op.name \in {"updateMany", "deleteMany"}
  /\ ListFailed(op)
  /\ op.raised = "NetworkError"

\* The documents of a snapshot matching a filter, in the snapshot's order.
MatchingDocs(docs, filter) == SelectSeq(docs, LAMBDA d : MatchesFilter(d, filter))

\* C11: find returns project(paginate(sort(filter(all documents, F)))), in
\* that order of application, and total is the number of documents matching
\* F whatever skip, limit and projection are: the sort and the window are
\* taken over unprojected documents.
C11_FindPipeline ==
  (op.name = "find" /\ op.raised = "none") =>
    LET matching == MatchingDocs(op.all, op.filter)
    IN  /\ op.total = Len(matching)
        /\ op.found =
             ApplyProjection(
               ApplyPagination(SortDocuments(matching, op.options.sort),
                               op.options.skip, op.options.limit),
               op.options.projection)

\* A find whose sort, window and projection all act, and for which no other
\* order of application gives the same documents.
C11_Witness ==
  /\ op.name = "find" /\ op.raised = "none"
  /\ op.options.sort # Undef /\ op.options.projection # Undef
  /\ op.options.skip = Num(1) /\ op.options.limit = Num(1)
  /\ op.total = 3 /\ Len(op.found) = 1
  /\ LET matching == MatchingDocs(op.all, op.filter)
     IN  /\ op.found #
              ApplyProjection(
                SortDocuments(ApplyPagination(matching, op.options.skip, op.options.limit),
                              op.options.sort),
                op.options.projection)
         /\ op.found #
              ApplyPagination(
                SortDocuments(ApplyProjection(matching, op.options.projection),
                              op.options.sort),
                op.options.skip, op.options.limit)

\* C12: hasMore is true exactly when a matching document lies after the
\* returned window: skip + (number of documents returned) < total, for every
\* skip and every limit, limit 0 and limit absent included.
C12_HasMore ==
  (op.name = "find" /\ op.raised = "none") =>
    (op.hasMore <=>
       (IF op.options.skip = Undef THEN 0 ELSE op.options.skip.num) + Len(op.found)
         < op.total)

\* The document the message with the given id holds.
Held(l, id) == l[CHOOSE i \in 1..Len(l) : Str(l[i].id) = id].content.json

\* C13: the identifier is immutable.  After updateOne or updateMany has
\* modified a document, whatever accepted update specification names _id,
\* the document dispatched to the transport carries the identifier it had,
\* and every cache entry's key equals its document's _id.
C13_IdImmutable ==
  (op.name \in {"updateOne", "updateMany"}) =>
    /\ \A i \in 1..Len(op.selected) :
         op.statuses[i] = "modified" =>
           Id(Held(log, MessageId(op.selected[i]))) = Id(op.selected[i])
    /\ \A j \in 1..Len(cache) : Id(cache[j].doc) = cache[j].key

\* C14: after a successful insertOne, updateOne or updateMany the cached
\* document's _messageId is the id of the transport message holding it,
\* whatever _messageId the caller gave in the document or the update.
C14_MessageIdStamped ==
  /\ (op.name = "insertOne" /\ op.raised = "none") =>
       \A i \in 1..Len(op.inserted) :
         MessageId(CacheGet(cache, op.inserted[i].insertedId)) = Str(op.inserted[i].messageId)
  /\ (op.name \in {"updateOne", "updateMany"} /\ op.raised = "none") =>
       \A i \in With(op, "modified") :
         (\A j \in With(op, "modified") : j > i => Id(op.selected[j]) # Id(op.selected[i]))
           => MessageId(CacheGet(cache, Id(op.selected[i]))) = MessageId(op.selected[i])

EditCalls(rec) == {i \in 1..Len(rec.calls) : rec.calls[i].fn = "edit"}

\* C15: a malformed update specification is a ValidationError.  updateOne and
\* updateMany given a specification validateUpdate rejects raise an error of
\* kind ValidationError, dispatch no transport edit and leave the cache
\* unchanged.
C15_MalformedUpdate ==
  (op.name \in {"updateOne", "updateMany"} /\ ~ValidateUpdate(op.update)) =>
    /\ op.raised = "ValidationError"
    /\ EditCalls(op) = {}
    /\ cache = op.before

\* An update specification with operator keys and field keys at its top level.
IsMixed(update) ==
  /\ \E i \in 1..Len(update) : update[i].key \in DollarKeys
  /\ \E i \in 1..Len(update) : update[i].key \notin DollarKeys

\* C16: an update specification mixing operator keys and field keys at its
\* top level is rejected with a validation error by updateOne and updateMany,
\* and no document is changed.
C16_MixedRejected ==
  (op.name \in {"updateOne", "updateMany"} /\ IsMixed(op.update)) =>
    /\ op.raised \in {"ValidationError", "DiscordDBError"}
    /\ EditCalls(op) = {}
    /\ cache = op.before

FailedCalls(rec) == {i \in 1..Len(rec.calls) : ~rec.calls[i].ok}

\* C17: transport failures surface without retry.  When a transport call made
\* by insertOne, updateOne, deleteOne or find fails, the caller receives the
\* same kind if it was an AuthenticationError or a NetworkError and a
\* DiscordDBError otherwise, the failed call is attempted once, and the cache
\* is left as it was (as the operation's own reload filled it, where its
\* lookup reloaded).
C17_TransportFailure ==
  (op.name \in {"insertOne", "updateOne", "deleteOne", "find"} /\ FailedCalls(op) # {}) =>
    \A i \in FailedCalls(op) :
      /\ op.raised = IF op.calls[i].err \in {"AuthenticationError", "NetworkError"}
                     THEN op.calls[i].err ELSE "DiscordDBError"
      /\ Cardinality({j \in 1..Len(op.calls) : op.calls[j].fn = op.calls[i].fn}) = 1
      /\ cache = op.base

\* The messages of the log that hold an Encrypted Payload.
Envelopes(l) == {i \in 1..Len(l) : "json" \in DOMAIN l[i].content /\ IsEncrypted(l[i].content.json)}

PlainOf(m, key) == Stamp(DeserializeDocument(m.content, key).doc[1], m.id, m.timestamp)

C20_UniqueIds ==
  /\ \A i, j \in 1..Len(log) :
       (i # j /\ Keeps(log[i]) /\ Keeps(log[j]))
         => Id(log[i].content.json) # Id(log[j].content.json)
  /\ op.name = "find" =>
       \A i, j \in 1..Len(op.found) : i # j => Id(op.found[i]) # Id(op.found[j])


\* C21: an updateOne (updateById) or deleteOne (deleteById) whose filter
\* matches no document returns, without raising, a result whose acknowledged
\* is false and whose counts are 0, and makes no transport edit or delete.
NoMatch ==
  /\ op.name \in {"updateOne", "deleteOne"}
  /\ op.raised = "none"
  /\ op.selected = <<>>

C21_NoMatchUnacknowledged ==
  NoMatch =>
    /\ op.result.acknowledged = FALSE
    /\ op.result.matchedCount = 0
    /\ op.result.modifiedCount = 0
    /\ op.result.deletedCount = 0
    /\ \A i \in 1..Len(op.calls) : op.calls[i].fn \notin {"edit", "delete"}


\* C22: matchesFilter(D, F) is true exactly when every top-level key of F
\* holds of D (the empty filter matches every document; several keys are a
\* conjunction); a key $and holds iff all its sub-filters match D, a key $or
\* iff at least one does, a key $not iff its sub-filter does not match D.
Matched == op.value = Bool(TRUE)

KeyHolds(doc, e) ==
  IF "and" \in DOMAIN e THEN \A i \in 1..Len(e.and) : MatchesFilter(doc, e.and[i])
  ELSE IF "or" \in DOMAIN e THEN \E i \in 1..Len(e.or) : MatchesFilter(doc, e.or[i])
  ELSE IF "not" \in DOMAIN e THEN ~MatchesFilter(doc, e.not)
  ELSE MatchesFilter(doc, <<e>>)

C22_LogicalOperators ==
  op.name = "matchesFilter" =>
    (Matched <=> \A i \in 1..Len(op.filter) : KeyHolds(op.documents[1], op.filter[i]))

\* A two-key filter and an $or that differ from their first key and first
\* sub-filter: the document matches one key only.
C22_Witness ==
  /\ op.name = "matchesFilter"
  /\ Len(op.filter) = 1
  /\ "or" \in DOMAIN op.filter[1]
  /\ Len(op.filter[1].or) = 2
  /\ ~MatchesFilter(op.documents[1], op.filter[1].or[1])
  /\ MatchesFilter(op.documents[1], op.filter[1].or[2])
  /\ Matched


\* C23: field-level negation.  A document matches { f: { $not: ops } } exactly
\* when it does not match { f: ops }.
IsFieldNot(e) ==
  /\ "ops" \in DOMAIN e
  /\ Len(e.ops) = 1
  /\ e.ops[1].op = "$not"

C23_FieldNot ==
  (op.name = "matchesFilter" /\ Len(op.filter) = 1 /\ IsFieldNot(op.filter[1])) =>
    (Matched <=> ~MatchesFilter(op.documents[1],
                   <<[path |-> op.filter[1].path, ops |-> op.filter[1].ops[1].arg.ops]>>))


\* C24: literal equality on nested mappings.  When a filter's value for a
\* field is a mapping without operator keys, a document matches exactly when
\* its value at the field is deep-equal to the mapping; a differing or absent
\* value does not match.
IsMappingLiteral(e) ==
  /\ "lit" \in DOMAIN e
  /\ IsObj(e.lit)
  /\ DOMAIN e.lit.obj \cap {"$eq", "$ne", "$gt", "$gte", "$lt", "$lte", "$in", "$nin",
                            "$exists", "$regex", "$and", "$or", "$not"} = {}

C24_MappingLiteral ==
  (op.name = "matchesFilter" /\ Len(op.filter) = 1 /\ IsMappingLiteral(op.filter[1])) =>
    (Matched <=> GetNestedValue(op.documents[1], op.filter[1].path) = op.filter[1].lit)


\* C25: the operator groups of an update are applied in the fixed order $set,
\* $unset, $inc, $push, $pull, $addToSet whatever the order of the keys: the
\* result equals applying the single-group updates one after another in that
\* order, and a group that is absent changes nothing.
Step == op.steps[Len(op.steps)]

RECURSIVE OneByOne(_, _, _)
OneByOne(doc, update, groups) ==
  IF groups = <<>> THEN doc
  ELSE OneByOne(IF \E i \in 1..Len(update) : update[i].key = Head(groups)
                THEN ApplyUpdate(doc, <<[key |-> Head(groups),
                                         val |-> Group(update, Head(groups))]>>)
                ELSE doc,
                update, Tail(groups))

C25_OperatorOrder ==
  (op.name = "applyUpdate" /\ IsUpdateOperators(Step.update)) =>
    Step.result = OneByOne(Step.document, Step.update,
                    <<"$set", "$unset", "$inc", "$push", "$pull", "$addToSet">>)

\* { $inc: { f: 1 }, $set: { f: 5 } } leaves f = 6.
C25_Witness ==
  /\ op.name = "applyUpdate"
  /\ Step.update = <<GroupOf("$inc", <<"f">>, Num(1)), GroupOf("$set", <<"f">>, Num(5))>>
  /\ Step.result["f"] = Num(6)


\* C26: $inc with a numeric increment n sets the field to its current value
\* plus n when that value is a number, to n when the field is absent, and
\* leaves the field exactly as it was, raising nothing, when its value is
\* present and not a number (null, false and the empty string included).
IsInc(update) ==
  /\ Len(update) = 1
  /\ update[1].key = "$inc"
  /\ Len(update[1].val) = 1
  /\ IsNum(update[1].val[1].arg)

C26_Increment ==
  (op.name = "applyUpdate" /\ IsInc(Step.update)) =>
    LET path == Step.update[1].val[1].path
        n == Step.update[1].val[1].arg.num
        current == GetNestedValue(Step.document, path)
        after == GetNestedValue(Step.result, path)
    IN  /\ IsNum(current) => after = Num(current.num + n)
        /\ current = Undef => after = Num(n)
        /\ (current # Undef /\ ~IsNum(current)) => after = current


\* C27: push/pull round trip.  For a field f holding an array A of scalar
\* elements and a scalar v, { $push: { f: v } } followed by { $pull: { f: v } }
\* yields a document whose f equals A.
IsScalar(v) == v = Null \/ IsNum(v) \/ IsStr(v) \/ "bool" \in DOMAIN v

OneEntry(update, key) ==
  /\ Len(update) = 1
  /\ update[1].key = key
  /\ Len(update[1].val) = 1

IsScalarArray(v) == IsArr(v) /\ \A i \in 1..Len(v.arr) : IsScalar(v.arr[i])

PushedThenPulled ==
  /\ op.name = "applyUpdate"
  /\ Len(op.steps) = 2
  /\ OneEntry(op.steps[1].update, "$push")
  /\ OneEntry(op.steps[2].update, "$pull")
  /\ op.steps[1].update[1].val = op.steps[2].update[1].val
  /\ IsScalar(op.steps[1].update[1].val[1].arg)
  /\ IsScalarArray(GetNestedValue(op.steps[1].document, op.steps[1].update[1].val[1].path))

C27_PushPullRoundTrip ==
  PushedThenPulled =>
    GetNestedValue(op.steps[2].result, op.steps[1].update[1].val[1].path)
      = GetNestedValue(op.steps[1].document, op.steps[1].update[1].val[1].path)

\* C27 as amended: the round trip restores A when A does not contain v.
C27_RoundTripAmended ==
  (/\ PushedThenPulled
   /\ ~InArray(op.steps[1].update[1].val[1].arg,
               GetNestedValue(op.steps[1].document, op.steps[1].update[1].val[1].path).arr))
    => GetNestedValue(op.steps[2].result, op.steps[1].update[1].val[1].path)
         = GetNestedValue(op.steps[1].document, op.steps[1].update[1].val[1].path)

\* 1 pushed onto and pulled from a non-empty array without it.
C27_Witness ==
  /\ PushedThenPulled
  /\ op.steps[1].document["f"] = Arr(<<Num(2)>>)
  /\ op.steps[1].result["f"] = Arr(<<Num(2), Num(1)>>)
  /\ op.steps[2].result["f"] = Arr(<<Num(2)>>)


\* C28: $addToSet is idempotent.  Applying { $addToSet: { f: v } } twice
\* yields the same document as applying it once, and when the original array
\* held no element deep-equal to v the resulting array holds exactly one.
AddedTwice ==
  /\ op.name = "applyUpdate"
  /\ Len(op.steps) = 2
  /\ OneEntry(op.steps[1].update, "$addToSet")
  /\ op.steps[2].update = op.steps[1].update

Occurrences(arr, v) == Cardinality({i \in 1..Len(arr) : DeepEqual(arr[i], v)})

C28_AddToSetIdempotent ==
  AddedTwice =>
    LET path == op.steps[1].update[1].val[1].path
        v == op.steps[1].update[1].val[1].arg
        original == GetNestedValue(op.steps[1].document, path)
        once == GetNestedValue(op.steps[1].result, path)
    IN  /\ op.steps[2].result = op.steps[1].result
        /\ (IsArr(original) /\ Occurrences(original.arr, v) = 0) =>
             (IsArr(once) /\ Occurrences(once.arr, v) = 1)

\* A value added to an array without it, and added again.
C28_Witness ==
  /\ AddedTwice
  /\ GetNestedValue(op.steps[1].document, <<"f">>) = Arr(<<Num(2)>>)
  /\ op.steps[1].update[1].val[1].arg = Num(1)
  /\ op.steps[2].result["f"] = Arr(<<Num(2), Num(1)>>)


\* C29: a direct update equals $set.  For every document D and non-operator
\* update U, whose keys may be dot-separated paths, applyUpdate(D, U) equals
\* applyUpdate(D, { $set: U }).
PathOf(key) == CHOOSE path \in {<<"f">>, <<"p", "n">>} : Dotted(path) = key

AsSet(update) ==
  <<[key |-> "$set",
     val |-> [i \in 1..Len(update) |->
                [path |-> PathOf(update[i].key), arg |-> update[i].val]]]>>

C29_DirectEqualsSet ==
  (op.name = "applyUpdate" /\ ~IsUpdateOperators(Step.update)) =>
    Step.result = ApplyUpdate(Step.document, AsSet(Step.update))


\* C30: sort direction reversal.  For a list of documents whose values at a
\* numeric field are pairwise distinct, sortDocuments with direction -1 or
\* "desc" returns exactly the reverse of sortDocuments with direction 1 or
\* "asc", both are permutations of the input, and the ascending result is
\* ordered by increasing field value.
Reverse(s) == [i \in 1..Len(s) |-> s[Len(s) + 1 - i]]

IsPermutation(s, t) ==
  /\ Len(s) = Len(t)
  /\ \A d \in Range(s) \cup Range(t) :
       Cardinality({i \in 1..Len(s) : s[i] = d}) = Cardinality({i \in 1..Len(t) : t[i] = d})

DistinctNumbers(documents, path) ==
  /\ \A i \in 1..Len(documents) : IsNum(GetNestedValue(documents[i], path))
  /\ \A i, j \in 1..Len(documents) :
       i # j => GetNestedValue(documents[i], path) # GetNestedValue(documents[j], path)

Ascending(step) == step.sortOption.by[1].dir \in {Num(1), Str("asc")}

C30_SortReversal ==
  (op.name = "sortDocuments" /\ DistinctNumbers(op.documents, <<"age">>)) =>
    /\ \A i \in 1..Len(op.steps) : IsPermutation(op.steps[i].result, op.documents)
    /\ \A i \in 1..Len(op.steps) :
         Ascending(op.steps[i]) =>
           \A k \in 1..(Len(op.documents) - 1) :
             op.steps[i].result[k]["age"].num < op.steps[i].result[k + 1]["age"].num
    /\ \A i, j \in 1..Len(op.steps) :
         (Ascending(op.steps[i]) /\ ~Ascending(op.steps[j])) =>
           op.steps[j].result = Reverse(op.steps[i].result)

\* Three documents in neither order, sorted ascending and then descending.
C30_Witness ==
  /\ op.name = "sortDocuments"
  /\ DistinctNumbers(op.documents, <<"age">>)
  /\ Len(op.documents) = MaxList
  /\ Len(op.steps) = 2
  /\ Ascending(op.steps[1])
  /\ ~Ascending(op.steps[2])
  /\ op.steps[1].result # op.documents
  /\ op.steps[2].result # op.documents


\* C31: projection modes.  A projection is inclusive iff at least one flag is
\* 1; in inclusive mode each projected document has exactly the fields
\* flagged 1, plus _id unless _id is flagged 0; in exclusive mode it is the
\* original document minus the fields flagged 0; the documents the cache
\* holds are not altered by projecting.
Flagged(fields, val) == {Dotted(fields[i].path) : i \in {j \in 1..Len(fields) : fields[j].val = val}}

ProjectedAs(doc, projected, fields) ==
  IF Flagged(fields, 1) # {}
  THEN /\ DOMAIN projected
            = Flagged(fields, 1) \cup (IF "_id" \in Flagged(fields, 0) THEN {} ELSE {"_id"})
       /\ \A i \in 1..Len(fields) :
            fields[i].val = 1 =>
              projected[Dotted(fields[i].path)] = GetNestedValue(doc, fields[i].path)
       /\ "_id" \in DOMAIN projected => projected["_id"] = Id(doc)
  ELSE projected = [k \in DOMAIN doc \ Flagged(fields, 0) |-> doc[k]]

Projecting ==
  /\ op.name = "find"
  /\ op.raised = "none"
  /\ op.options.projection # Undef

RECURSIVE Fetched(_, _)
Fetched(steps, k) ==
  IF k = 0 THEN 0 ELSE Fetched(steps, k - 1) + Len(steps[k].messages)

Listing == op.name = "getAllMessages"

\* Each request asks for min(remaining, 100) messages before the last message
\* of the previous batch; only the last request may bring an empty batch.
RequestsPaginate ==
  \A k \in 1..Len(op.steps) :
    /\ op.steps[k].limit = Min(op.maxMessages - Fetched(op.steps, k - 1), BatchSize)
    /\ op.steps[k].before =
         IF k = 1 THEN Undef
         ELSE Str(op.steps[k - 1].messages[Len(op.steps[k - 1].messages)].id)
    /\ k < Len(op.steps) => Len(op.steps[k].messages) > 0
    /\ Fetched(op.steps, k - 1) < op.maxMessages

\* The listing returned the first min(N, maxMessages) messages of the log, and
\* it stopped at the first empty batch or when the cap was reached.
ReturnedNewest ==
  op.pc = "done" =>
    /\ op.all = SubSeq(log, 1, Min(Len(log), op.maxMessages))
    /\ \/ Len(op.allMessages) >= op.maxMessages
       \/ Len(op.steps) > 0 /\ Len(op.steps[Len(op.steps)].messages) = 0

\* C32: getAllMessages(maxMessages) terminates and returns the first
\* min(N, maxMessages) messages of the N-message log, newest first, with no
\* duplicate and no gap: each request asks for min(remaining, 100) messages
\* with the id of the last message of the previous batch as cursor, and the
\* loop stops at the first empty batch or when the cap is reached.
C32_Pagination ==
  /\ [](Listing => RequestsPaginate /\ ReturnedNewest)
  /\ <>(Listing => op.pc = "done")

\* A listing of two requests that stopped at the cap with messages left.
C32_Witness ==
  /\ Listing
  /\ op.pc = "done"
  /\ Len(op.steps) = 2
  /\ Len(op.all) = op.maxMessages
  /\ Len(log) > op.maxMessages


\* The documents of an update that were found and not written: the update
\* raised or skipped them, for their size or for a failed edit.
NotWritten(rec) ==
  {i \in 1..Len(rec.statuses) : rec.statuses[i] \in {"oversize", "failed"}}

\* C34: a failed update leaves the cached document untouched.  When updateOne
\* raises after it found a matching document (the updated document is too
\* large, or the transport's edit fails), or updateMany skips a document for
\* either reason, the cache entry of that document, nested fields included, is
\* the entry the cache held before the update was applied.
C34_FailedUpdateUntouched ==
  op.name \in {"updateOne", "updateMany"} =>
    \A i \in NotWritten(op) :
      \A j \in 1..Len(cache) :
        cache[j].key = Id(op.selected[i]) => cache[j] \in Range(op.base)


FailedReloadStep ==
  /\ ListFailed(op') =>
       /\ op'.raised # "none"
       /\ cache' = cache
       /\ lastCacheUpdate' = lastCacheUpdate
  /\ (ListFailed(op) /\ op'.name \in ReadOps
        /\ ~IsFresh(cache, lastCacheUpdate, cacheTimeout, now)) =>
       ListCalls(op') = 1

\* C36: a failed reload changes nothing.  If the transport's list call fails
\* while a read or a batch operation reloads, the operation raises, the cache
\* and the time of its last refresh are as they were before, and the next read
\* on the still stale or empty cache attempts the reload again.
C36_FailedReload == [][FailedReloadStep]_vars

\* A batch update whose reload failed over a stale cache that holds a document.
C36_Witness == op.name = "updateMany" /\ ListFailed(op) /\ Len(cache) > 0

\* A read that attempted the reload again after a failed one.
C36_WitnessRetry ==
  op.name = "find" /\ ListFailed(op) /\ op.before = cache /\ now > StartTime


\* A find that reloaded, followed by the same find served from the cache the
\* reload filled.
SameFindFromCache ==
  /\ op.name = "find" /\ Reloaded(op) /\ op.raised = "none"
  /\ op'.name = "find" /\ ListCalls(op') = 0 /\ op'.raised = "none"
  /\ op'.filter = op.filter
  /\ op'.options = op.options
  /\ log' = log

\* C37: the reload path and the cache path agree.  For a fixed log, find with
\* a filter and options returns the same sequence of documents (identifiers,
\* order and contents) and the same total when the call performed the reload
\* as when it is served from the cache that reload filled.
C37_ReloadEqualsCache ==
  [][SameFindFromCache => (op'.found = op.found /\ op'.total = op.total)]_vars


\* A read served while the cache is fresh.
FreshRead ==
  op'.name \in ReadOps /\ IsFresh(cache, lastCacheUpdate, cacheTimeout, now)

\* What a read returns.
Returned(rec) ==
  [raised |-> rec.raised, documents |-> rec.found, total |-> rec.total,
   hasMore |-> rec.hasMore, count |-> rec.result.count]

\* The read of the step repeats the read before it, which the same fresh cache
\* served.
RepeatedRead ==
  /\ FreshRead
  /\ op.name = op'.name /\ op.filter = op'.filter /\ op.options = op'.options
  /\ op.calls = <<>> /\ op.before = cache

ReadOnlyStep ==
  /\ FreshRead =>
       /\ op'.calls = <<>>
       /\ cache' = cache
       /\ lastCacheUpdate' = lastCacheUpdate
       /\ log' = log
  /\ RepeatedRead => Returned(op') = Returned(op)

\* C39: reads are read-only.  find with any sort, skip, limit and projection,
\* findOne, countDocuments and exists served from a fresh cache issue no
\* transport call and leave the cache, its order and the time of its last
\* refresh unchanged, so the same read repeated at once returns the same.
C39_ReadsReadOnly == [][ReadOnlyStep]_vars

\* A sorted, projected find served from a fresh cache of two documents.
C39_Witness ==
  /\ op.name = "find" /\ op.calls = <<>> /\ op.raised = "none"
  /\ op.options.sort # Undef /\ op.options.projection # Undef
  /\ Len(cache) = 2 /\ Len(op.found) = 2
  /\ op.before = cache


\* The edit and delete calls of an operation.
ChangeCalls(rec) == {i \in 1..Len(rec.calls) : rec.calls[i].fn \in {"edit", "delete"}}

\* The step of an updateOne or deleteOne that selected the document d: d is the
\* first match in cache order, one edit or delete goes to d's message, and the
\* cache entries and messages of the other documents stay.
TouchesOnly(d) ==
  /\ ~Reloaded(op') =>
       d = Head(MatchingDocs(CacheDocs(cache), op'.filter))
  /\ Cardinality(ChangeCalls(op')) = 1
  /\ \A i \in ChangeCalls(op') :
       /\ op'.calls[i].id = MessageId(d)
       /\ op'.calls[i].fn = IF op'.name = "updateOne" THEN "edit" ELSE "delete"
  /\ \A j \in 1..Len(op'.base) :
       op'.base[j].doc # d => op'.base[j] \in Range(cache')
  /\ \A i \in 1..Len(log) :
       Str(log[i].id) # MessageId(d) => log[i] \in Range(log')

SingleDocumentStep ==
  op'.name \in {"updateOne", "deleteOne"} =>
    /\ Len(op'.selected) <= 1
    /\ op'.selected = <<>> =>
         (ChangeCalls(op') = {} /\ cache' = op'.base /\ log' = log)
    /\ op'.selected # <<>> => TouchesOnly(op'.selected[1])

\* C40: single-document operations touch one document.  updateOne and
\* deleteOne change at most one document, the first that matches in cache
\* order, issue exactly one edit or delete keyed by that document's message id
\* and leave the cache entry and the message of every other document as they
\* were; when no document matches they issue no edit or delete and change
\* nothing.
C40_SingleDocument == [][SingleDocumentStep]_vars


\* The step writes the cache for the insertOne, updateOne or deleteOne of call
\* c, whose response arrived.
WritesCache(c) ==
  /\ inflight[c].pc \in {"sent", "edited", "deleted"}
  /\ inflight'[c].pc = "done"
  /\ cache' # cache

\* C33: the cache is never mutated concurrently with a reload.  For every
\* interleaving of overlapping calls on one store, no insertOne, updateOne or
\* deleteOne writes to or removes from the cache between the moment a reload
\* issues its list call and the moment that reload replaces the cache.
C33_NoWriteDuringReload ==
  [][\A c \in Slots : WritesCache(c) => \A b \in Slots \ {c} : ~Reloading(inflight[b])]_vars

\* Every call made has returned.
Quiescent ==
  /\ inflight # <<>>
  /\ \A c \in Slots : inflight[c].pc \in {"idle", "done"}

\* The call was acknowledged while the list call of a reload was in flight.
AckedDuringReload(rec, name) ==
  /\ rec.name = name
  /\ rec.pc = "done"
  /\ rec.result.acknowledged
  /\ rec.selected # <<>>
  /\ rec.duringReload

\* C35: a write overlapping a reload is not lost from the cache.  If the list
\* call of a reload is in flight while an insertOne or a deleteOne is
\* acknowledged, then once both have completed the fresh cache contains the
\* inserted document, respectively does not contain the deleted one.
C35_WriteNotLost ==
  (Quiescent /\ IsFresh(cache, lastCacheUpdate, cacheTimeout, now)) =>
    \A c \in Slots :
      /\ AckedDuringReload(inflight[c], "insertOne") =>
           Id(inflight[c].selected[1]) \in CacheKeys(cache)
      /\ AckedDuringReload(inflight[c], "deleteOne") =>
           Id(inflight[c].selected[1]) \notin CacheKeys(cache)

\* The call is an updateOne that was acknowledged with its document modified.
Modified(rec) ==
  rec.name = "updateOne" /\ rec.pc = "done" /\ rec.result.modifiedCount = 1

\* C38: cache and transport agree after overlapping updates.  When two
\* updateOne calls on the same document were both acknowledged, then once both
\* have completed the cached version of the document is the content the
\* transport holds for it, whatever the order in which the transport processed
\* the edits and delivered the responses.
C38_OverlappingUpdates ==
  (Quiescent /\ \A c \in Slots : Modified(inflight[c])) =>
    \A c \in Slots, i \in 1..Len(log) :
      Str(log[i].id) = MessageId(inflight[c].selected[1]) =>
        /\ Id(inflight[c].selected[1]) \in CacheKeys(cache)
        /\ CacheGet(cache, Id(inflight[c].selected[1])) = DocOf(log[i])

====
